---------------------------- MODULE Spec2Model ----------------------------
(***************************************************************************)
(* Verification model of banana-flow-studio's asynchronous job subsystem:  *)
(*   - the video-upscale task registry, its background worker and the      *)
(*     start/status handlers            (bananaflow/api/routes.py)         *)
(*   - the ComfyUI workflow runner      (bananaflow/services/comfyui.py)   *)
(*   - the Ark video-task poller        (bananaflow/services/ark_video.py) *)
(*                                                                         *)
(* Python dicts are modelled as functions whose DOMAIN is the key set      *)
(* (d.update(p) is p @@ d, "k in d" is k \in DOMAIN d).  Floats that the   *)
(* code computes as done/total are modelled as reduced fractions.          *)
(***************************************************************************)
EXTENDS Integers, Sequences, FiniteSets, TLC

VARIABLES
    \* ---- task registry, handlers and workers (routes.py) ----
    video_upscale_tasks,   \* the registry: task_id -> record (a dict)
    handler,               \* task_id -> position of its start handler
    pc,                    \* task_id -> position of its worker thread
    total,                 \* task_id -> len(source_chunks) of the run
    idx,                   \* task_id -> index of the chunk being processed
    exc,                   \* task_id -> str(e) of the exception being handled
    current_task,          \* task_id -> snapshot read by the worker (line 447)
    usage,                 \* user_id -> usage counter (storage/usage.py)
    \* ---- one polling call (ark_video.py poll_video_task, comfyui.py _wait_for_history) ----
    poller,                \* which poller runs: "video", "history" or "none"
    poll_pc,               \* "polling", "returned", "timeout", "raised"
    max_rounds,            \* poll_video_task: the round budget
    round,                 \* status queries made so far
    sleeps,                \* time.sleep calls made so far
    responses,             \* poll_video_task: the responses received, in order
    last_status_data,      \* poll_video_task: payload of the last 200 response
    clock,                 \* _wait_for_history: time.time(), in poll intervals
    deadline,              \* _wait_for_history: time.time() + timeout at entry
    last_err,              \* _wait_for_history: str(e) of the last transport error
    last_resp,             \* _wait_for_history: the last response received
    poll_result,           \* what the call returned or raised
    \* ---- a sequence of _set_node_input calls on one workflow (comfyui.py) ----
    p_workflow,            \* the workflow dict the calls patch in place
    p_before,              \* its value before the last call
    p_call,                \* the arguments of the last call
    p_raised,              \* the error the last call raised, or None
    p_count,               \* calls made so far
    \* ---- one workflow run (comfyui.py run_video_upscale_workflow, run_rmbg_workflow) ----
    run_kind,              \* "video", "image" or "none"
    template_file,         \* the workflow JSON file on disk
    video_input,           \* the video reference passed by the caller
    heap,                  \* the dict objects of the run: the loaded template and the copy
    workflow_ref,          \* the object the local name `workflow` is bound to
    run_pc,                \* position in the run
    run_idx,               \* idx of the for loop
    uploaded,              \* the name _upload_file returned for the job
    patch_i,               \* which _set_node_input call of the job is next
    history,               \* what _wait_for_history returned for the job
    source_chunks,         \* the sorted chunk files of the split
    processed_chunk_paths, \* the processed chunk files, in append order
    net,                   \* the network calls made so far, in order
    ticks,                 \* the progress_cb calls made so far, in order
    temp_dir,              \* TRUE while the TemporaryDirectory exists
    run_result,            \* what the run returned or raised
    \* ---- one output resolution call (comfyui.py _pick_output_file, _pick_output_image) ----
    pick_fn,               \* "file", "image" or "none"
    pick_history,          \* the history argument
    pick_preferred,        \* the preferred_node_ids argument
    pick_pc,               \* "call", "returned", "raised"
    pick_result,           \* the file info returned or the error raised
    \* ---- the chunk listing of one split (comfyui.py _split_video_segments) ----
    chunk_total,           \* number of chunk files the transcoder wrote
    glob_sample,           \* indices of some of the files glob.glob returned (no order)
    chunks,                \* sorted(...) of these files, as their indices
    sort_pc,               \* "call", "returned" or "raised"
    \* ---- the threads around the registry lock (routes.py 61-75, 420-537) ----
    objects,               \* the dict objects: address -> content
    tasks_ref,             \* video_upscale_tasks: task_id -> address of its dict
    lock,                  \* video_upscale_tasks_lock: "free" or the holding thread
    tpc,                   \* position of each thread in its code
    in_with,               \* whether each thread is inside a "with lock" block
    snap,                  \* what _get_video_upscale_task returned to each reader
    poll_id,               \* the task_id of the status call in progress
    w_done,                \* progress callbacks the run has made
    committed,             \* the registry content when the last update finished
    \* ---- the temporary workspaces of concurrent video runs (comfyui.py 922-966) ----
    fs,                    \* the files on disk, as <<directory, relative path>>
    dirs,                  \* the directories tempfile has created and not removed
    w_dir,                 \* run -> temp_dir of its with block
    w_pc,                  \* run -> position in run_video_upscale_workflow
    w_chunks,              \* run -> number of chunks its split wrote
    w_bytes,               \* run -> final_bytes read at line 961
    \* ---- one reassembly (comfyui.py _concat_video_segments and lines 959-966) ----
    cc_paths,         \* the processed chunk paths handed to the concat
    cc_pc,                 \* "call", "copy", "reencode", "returned", "raised", "done"
    cc_cmds,               \* the transcoder runs made, with their outcome
    cc_result,             \* the path returned or the error raised
    cc_mime,               \* the media type the run returns with the bytes
    \* ---- one artifact download (comfyui.py _download_file, ark_video.py download_video_as_data_url) ----
    f_fn,                  \* "comfyui" or "ark": which download runs
    f_resp,                \* what requests.get does: a response or an exception
    f_pc,                  \* "call", "downloaded", "returned", "raised"
    f_data_url,            \* ark: what download_video_as_data_url returned
    f_result,              \* what the caller of the download gets
    \* ---- concurrent start calls (routes.py video_upscale_start) ----
    s_pc,                  \* call -> position in video_upscale_start
    s_id,                  \* call -> its task_id (0 before uuid4 ran)
    s_user,                \* call -> current_user["id"]
    issued,                \* the values uuid4 has returned so far
    s_reg,                 \* video_upscale_tasks as these calls and their workers write it
    threads,               \* the worker threads started, in order
    s_resp,                \* the answer of the last status call
    \* ---- the img2video handler (routes.py 661-742) ----
    v_pc,                  \* position of each img2video request in the handler
    v_model,               \* req.model of each request
    v_exc,                 \* the exception each request has raised inside the try block
    v_resp,                \* the HTTP status each request was answered with
    submitted,             \* the requests for which a remote video task was submitted
    v_handler,             \* which img2video handler serves each request: routes.py or server.py
    v_round,               \* status queries each request's polling loop has made
    v_poll,                \* how the polling of each request's task ended
    \* ---- one call of generate_video_from_image (ark_video.py 107-153) ----
    g_pc,                  \* position of the call in generate_video_from_image
    g_posts,               \* POST requests sent to submit a task
    g_polls,               \* calls of poll_video_task
    g_status_data,         \* the payload poll_video_task returned
    g_get,                 \* what the GET of the video URL meets
    g_data_url,            \* what download_video_as_data_url returned
    g_result,              \* how the call ended
    \* ---- the end of run_multi_angleshots_workflow (comfyui.py 897-909) ----
    a_pc,                  \* position of the multi-angle run after its history arrived
    a_history,             \* the history of the multi-angle prompt
    a_infos,               \* image_infos, what _pick_output_images returned
    a_result               \* the images the run returned

regVars == <<video_upscale_tasks, handler, pc, total, idx, exc, current_task, usage>>
pollVars == <<poller, poll_pc, max_rounds, round, sleeps, responses, last_status_data,
              clock, deadline, last_err, last_resp, poll_result>>

patchVars == <<p_workflow, p_before, p_call, p_raised, p_count>>
runVars == <<run_kind, template_file, video_input, heap, workflow_ref, run_pc, run_idx,
             uploaded, patch_i, history, source_chunks, processed_chunk_paths, net, ticks,
             temp_dir, run_result>>

pickVars == <<pick_fn, pick_history, pick_preferred, pick_pc, pick_result>>
sortVars == <<chunk_total, glob_sample, chunks, sort_pc>>
lockVars == <<objects, tasks_ref, lock, tpc, in_with, snap, poll_id, w_done, committed>>
workVars == <<fs, dirs, w_dir, w_pc, w_chunks, w_bytes>>
concatVars == <<cc_paths, cc_pc, cc_cmds, cc_result, cc_mime>>
fetchVars == <<f_fn, f_resp, f_pc, f_data_url, f_result>>
startVars == <<s_pc, s_id, s_user, issued, s_reg, threads, s_resp>>
videoVars == <<v_pc, v_model, v_exc, v_resp, submitted, v_handler, v_round, v_poll>>
genVars == <<g_pc, g_posts, g_polls, g_status_data, g_get, g_data_url, g_result>>
anglesVars == <<a_pc, a_history, a_infos, a_result>>

vars == <<regVars, pollVars, patchVars, runVars, pickVars, sortVars, lockVars, workVars, concatVars, fetchVars, startVars, videoVars, genVars, anglesVars>>
notReg == <<pollVars, patchVars, runVars, pickVars, sortVars, lockVars, workVars, concatVars, fetchVars, startVars, videoVars, genVars, anglesVars>>
notPoll == <<regVars, patchVars, runVars, pickVars, sortVars, lockVars, workVars, concatVars, fetchVars, startVars, videoVars, genVars, anglesVars>>
notPatch == <<regVars, pollVars, runVars, pickVars, sortVars, lockVars, workVars, concatVars, fetchVars, startVars, videoVars, genVars, anglesVars>>
notRun == <<regVars, pollVars, patchVars, pickVars, sortVars, lockVars, workVars, concatVars, fetchVars, startVars, videoVars, genVars, anglesVars>>
notPick == <<regVars, pollVars, patchVars, runVars, sortVars, lockVars, workVars, concatVars, fetchVars, startVars, videoVars, genVars, anglesVars>>
notSort == <<regVars, pollVars, patchVars, runVars, pickVars, lockVars, workVars, concatVars, fetchVars, startVars, videoVars, genVars, anglesVars>>
notLock == <<regVars, pollVars, patchVars, runVars, pickVars, sortVars, workVars, concatVars, fetchVars, startVars, videoVars, genVars, anglesVars>>
notWork == <<regVars, pollVars, patchVars, runVars, pickVars, sortVars, lockVars, concatVars, fetchVars, startVars, videoVars, genVars, anglesVars>>
notConcat == <<regVars, pollVars, patchVars, runVars, pickVars, sortVars, lockVars, workVars, fetchVars, startVars, videoVars, genVars, anglesVars>>
notFetch == <<regVars, pollVars, patchVars, runVars, pickVars, sortVars, lockVars, workVars, concatVars, startVars, videoVars, genVars, anglesVars>>
notStart == <<regVars, pollVars, patchVars, runVars, pickVars, sortVars, lockVars, workVars, concatVars, fetchVars, videoVars, genVars, anglesVars>>
notVideo == <<regVars, pollVars, patchVars, runVars, pickVars, sortVars, lockVars, workVars, concatVars, fetchVars, startVars, genVars, anglesVars>>
notGen == <<regVars, pollVars, patchVars, runVars, pickVars, sortVars, lockVars, workVars, concatVars, fetchVars, startVars, videoVars, anglesVars>>
notAngles == <<regVars, pollVars, patchVars, runVars, pickVars, sortVars, lockVars, workVars, concatVars, fetchVars, startVars, videoVars, genVars>>

(***************************************************************************)
(* Bounds                                                                  *)
(***************************************************************************)
MaxTasks == 2
MaxChunks == 2

TaskIds == 1..MaxTasks
Users == {1, 2}
SegmentInputs == {0}         \* req.segment_seconds left unset (None)

(***************************************************************************)
(* Python values                                                           *)
(***************************************************************************)
EmptyDict == [k \in {} |-> 0]
None == "None"
NoneDict == [null |-> "null"]    \* None (JSON null) where the other values are dicts

Max(a, b) == IF a >= b THEN a ELSE b
Min(a, b) == IF a <= b THEN a ELSE b

RECURSIVE Gcd(_, _)
Gcd(a, b) == IF b = 0 THEN a ELSE Gcd(b, a % b)

\* float(n)/float(d) for integers n >= 0, d > 0, as a reduced fraction
Frac(n, d) == LET g == Gcd(n, d) IN [num |-> n \div g, den |-> d \div g]
Zero == [num |-> 0, den |-> 1]
One == [num |-> 1, den |-> 1]
FracLeq(a, b) == a.num * b.den <= b.num * a.den
FracMin(a, b) == IF FracLeq(a, b) THEN a ELSE b
FracMax(a, b) == IF FracLeq(a, b) THEN b ELSE a

\* d.get(k) or default   (None, 0, 0.0 and "" are all falsy)
GetOr(d, k, falsy, default) ==
    IF k \in DOMAIN d /\ d[k] \notin falsy THEN d[k] ELSE default

(***************************************************************************)
(* routes.py: the registry accessors                                       *)
(***************************************************************************)
\* the mutant of _set_video_upscale_task: the patch reaches every record
_set_video_upscale_task_all(reg, task_id, patch) ==
    [t \in DOMAIN reg \cup {task_id} |->
        patch @@ (IF t \in DOMAIN reg THEN reg[t] ELSE EmptyDict)]

_set_video_upscale_task(reg, task_id, patch) ==
    LET current == IF task_id \in DOMAIN reg THEN reg[task_id] ELSE EmptyDict
    IN  (task_id :> (patch @@ current)) @@ reg

\* Optional[dict]: found = FALSE stands for None
_get_video_upscale_task(reg, task_id) ==
    IF task_id \in DOMAIN reg
    THEN [found |-> TRUE, rec |-> reg[task_id]]
    ELSE [found |-> FALSE, rec |-> EmptyDict]

\* the mutant of _on_progress: done and total are swapped in the counters
_on_progress_swapped(done, tot) ==
    LET progress == IF tot > 0 THEN Frac(done, tot) ELSE Zero
    IN  [status |-> "running",
         completed_chunks |-> Max(0, tot),
         total_chunks |-> Max(0, done),
         progress |-> FracMax(Zero, FracMin(One, progress))]

\* the mutant of _on_progress: the tick counts one chunk too many
_on_progress_off_by_one(done, tot) ==
    LET progress == IF tot > 0 THEN Frac(done + 1, tot) ELSE Zero
    IN  [status |-> "running",
         completed_chunks |-> Max(0, done),
         total_chunks |-> Max(0, tot),
         progress |-> FracMax(Zero, FracMin(One, progress))]

\* the patch written by the progress callback
_on_progress(done, tot) ==
    LET progress == IF tot > 0 THEN Frac(done, tot) ELSE Zero
    IN  [status |-> "running",
         completed_chunks |-> Max(0, done),
         total_chunks |-> Max(0, tot),
         progress |-> FracMax(Zero, FracMin(One, progress))]

\* max(1, int(x or 3))
SegmentSeconds(x) == Max(1, IF x = 0 THEN 3 ELSE x)

\* routes.py 500-510: the record written by the start handler
QueuedRecord(u, seg) ==
    [user_id |-> u, status |-> "queued", completed_chunks |-> 0,
     total_chunks |-> 0, progress |-> Zero,
     segment_seconds |-> SegmentSeconds(seg)]

\* the mutant of SuccessPatch: the success write carries no video
SuccessPatch_no_video(snapshot, output_data_url) ==
    LET total_chunks == Max(0, GetOr(snapshot, "total_chunks", {0}, 0))
    IN  [status |-> "success",
         completed_chunks |-> total_chunks,
         total_chunks |-> total_chunks,
         progress |-> One]

\* routes.py 447-457: the patch of the success write, from the snapshot read back
SuccessPatch(snapshot, output_data_url) ==
    LET total_chunks == Max(0, GetOr(snapshot, "total_chunks", {0}, 0))
    IN  [status |-> "success",
         completed_chunks |-> total_chunks,
         total_chunks |-> total_chunks,
         progress |-> One,
         video |-> output_data_url]

\* the mutant of ErrorPatch: the error write also forgets the chunk total
ErrorPatch_zero_total(msg) == [status |-> "error", error |-> msg, total_chunks |-> 0]

\* the mutant of ErrorPatch: the error write leaves the status out
ErrorPatch_no_status(msg) == [error |-> msg]

\* the mutant of ErrorPatch: the error write also resets the counters
ErrorPatch_reset(msg) ==
    [status |-> "error", error |-> msg, completed_chunks |-> 0, progress |-> Zero]

\* routes.py 472-477: the patch of the error write
ErrorPatch(msg) == [status |-> "error", error |-> msg]

\* bytes_to_data_url(video_bytes, mime_type): never empty
bytes_to_data_url(bytes) == "data:video/mp4;base64," \o bytes

(***************************************************************************)
(* routes.py: video_upscale_status -- the response for a caller            *)
(***************************************************************************)
\* the mutant of video_upscale_status: the owner is not checked
video_upscale_status_any_user(reg, task_id, current_user) ==
    LET task == _get_video_upscale_task(reg, task_id)
        r == task.rec
    IN  IF ~task.found \/ DOMAIN r = {} THEN [code |-> 404, detail |-> "Task not found"]
        ELSE [code |-> 200,
              task_id |-> task_id,
              status |-> GetOr(r, "status", {""}, "queued"),
              completed_chunks |-> Max(0, GetOr(r, "completed_chunks", {0}, 0)),
              total_chunks |-> Max(0, GetOr(r, "total_chunks", {0}, 0)),
              progress |-> GetOr(r, "progress", {Zero}, Zero),
              video |-> IF "video" \in DOMAIN r THEN r["video"] ELSE None,
              error |-> IF "error" \in DOMAIN r THEN r["error"] ELSE None]

\* routes.py 521-537
video_upscale_status(reg, task_id, current_user) ==
    LET task == _get_video_upscale_task(reg, task_id)
        r == task.rec
    IN  IF ~task.found \/ DOMAIN r = {} THEN [code |-> 404, detail |-> "Task not found"]
        ELSE IF "user_id" \notin DOMAIN r \/ r["user_id"] # current_user
             THEN [code |-> 404, detail |-> "Task not found"]
        ELSE [code |-> 200,
              task_id |-> task_id,
              status |-> GetOr(r, "status", {""}, "queued"),
              completed_chunks |-> Max(0, GetOr(r, "completed_chunks", {0}, 0)),
              total_chunks |-> Max(0, GetOr(r, "total_chunks", {0}, 0)),
              progress |-> GetOr(r, "progress", {Zero}, Zero),
              video |-> IF "video" \in DOMAIN r THEN r["video"] ELSE None,
              error |-> IF "error" \in DOMAIN r THEN r["error"] ELSE None]

(***************************************************************************)
(* Outcomes of the stages of run_video_upscale_workflow, as the worker     *)
(* sees them: the text of the exception a stage raises.                    *)
(***************************************************************************)
PrepareErrors == {"Video input is empty", "ffmpeg failed at split(accurate)"}
ChunkErrors == {"ComfyUI upload failed", "ComfyUI timeout waiting for history"}
ConcatErrors == {"ffmpeg failed at concat(reencode)"}

(***************************************************************************)
(* Init                                                                    *)
(***************************************************************************)
InitReg ==
    /\ video_upscale_tasks = EmptyDict
    /\ handler = [t \in TaskIds |-> "idle"]
    /\ pc = [t \in TaskIds |-> "none"]
    /\ total = [t \in TaskIds |-> 0]
    /\ idx = [t \in TaskIds |-> 0]
    /\ exc = [t \in TaskIds |-> None]
    /\ current_task = [t \in TaskIds |-> EmptyDict]
    /\ usage = [u \in Users |-> 0]

\* no polling call in progress
IdlePoll ==
    /\ poller = "none"
    /\ poll_pc = "idle"
    /\ max_rounds = 0
    /\ round = 0
    /\ sleeps = 0
    /\ responses = <<>>
    /\ last_status_data = NoneDict
    /\ clock = 0
    /\ deadline = 0
    /\ last_err = None
    /\ last_resp = [kind |-> "none"]
    /\ poll_result = [kind |-> "none"]

\* no _set_node_input call sequence in progress
IdlePatch ==
    /\ p_workflow = EmptyDict
    /\ p_before = EmptyDict
    /\ p_call = [node_id |-> None]
    /\ p_raised = None
    /\ p_count = 0

\* no workflow run in progress
IdleRun ==
    /\ run_kind = "none"
    /\ template_file = EmptyDict
    /\ video_input = None
    /\ heap = [template |-> NoneDict, workflow |-> NoneDict]
    /\ workflow_ref = "workflow"
    /\ run_pc = "idle"
    /\ run_idx = 0
    /\ uploaded = None
    /\ patch_i = 1
    /\ history = NoneDict
    /\ source_chunks = <<>>
    /\ processed_chunk_paths = <<>>
    /\ net = <<>>
    /\ ticks = <<>>
    /\ temp_dir = FALSE
    /\ run_result = [kind |-> "none"]

\* no output resolution call in progress
IdlePick ==
    /\ pick_fn = "none"
    /\ pick_history = NoneDict
    /\ pick_preferred = <<>>
    /\ pick_pc = "idle"
    /\ pick_result = [found |-> FALSE]

\* no chunk listing in progress
IdleSort ==
    /\ chunk_total = 0
    /\ glob_sample = {}
    /\ chunks = <<>>
    /\ sort_pc = "idle"

Threads == {"starter", "worker", "poller"}
Readers == {"worker", "poller"}

\* no thread at the registry lock
IdleLock ==
    /\ objects = EmptyDict
    /\ tasks_ref = EmptyDict
    /\ lock = "free"
    /\ tpc = [th \in Threads |-> "none"]
    /\ in_with = [th \in Threads |-> FALSE]
    /\ snap = [r \in Readers |-> None]
    /\ poll_id = 0
    /\ w_done = 0
    /\ committed = EmptyDict

\* no video run holds a temporary workspace
IdleWork ==
    /\ fs = {}
    /\ dirs = {}
    /\ w_dir = EmptyDict
    /\ w_pc = EmptyDict
    /\ w_chunks = EmptyDict
    /\ w_bytes = EmptyDict

\* no reassembly call in progress
IdleConcat ==
    /\ cc_paths = <<>>
    /\ cc_pc = "idle"
    /\ cc_cmds = <<>>
    /\ cc_result = [kind |-> "none"]
    /\ cc_mime = None

\* no artifact download in progress
IdleFetch ==
    /\ f_fn = "none"
    /\ f_resp = [kind |-> "none"]
    /\ f_pc = "idle"
    /\ f_data_url = None
    /\ f_result = [kind |-> "none"]

\* no start call in progress
IdleStart ==
    /\ s_pc = EmptyDict
    /\ s_id = EmptyDict
    /\ s_user = EmptyDict
    /\ issued = {}
    /\ s_reg = EmptyDict
    /\ threads = <<>>
    /\ s_resp = [code |-> 0]

\* no img2video request in flight
IdleVideo ==
    /\ v_pc = <<>>
    /\ v_model = <<>>
    /\ v_exc = <<>>
    /\ v_resp = <<>>
    /\ submitted = {}
    /\ v_handler = <<>>
    /\ v_round = <<>>
    /\ v_poll = <<>>

\* no generate_video_from_image call in progress
IdleGen ==
    /\ g_pc = "none"
    /\ g_posts = 0
    /\ g_polls = 0
    /\ g_status_data = <<>>
    /\ g_get = <<>>
    /\ g_data_url = None
    /\ g_result = <<>>

\* no multi-angle run in progress
IdleAngles ==
    /\ a_pc = "none"
    /\ a_history = <<>>
    /\ a_infos = <<>>
    /\ a_result = <<>>

Init == InitReg /\ IdlePoll /\ IdlePatch /\ IdleRun /\ IdlePick /\ IdleSort /\ IdleLock /\ IdleWork /\ IdleConcat /\ IdleFetch /\ IdleStart /\ IdleVideo /\ IdleGen /\ IdleAngles

(***************************************************************************)
(* routes.py: video_upscale_start                                          *)
(***************************************************************************)
\* the mutant of StartCreate: the handler goes on without the queued write
StartCreate_no_write(u, seg) ==
    \E t \in TaskIds :
        /\ t = Cardinality(DOMAIN video_upscale_tasks) + 1
        /\ handler[t] = "idle"
        /\ handler' = [handler EXCEPT ![t] = "created"]
        /\ UNCHANGED <<video_upscale_tasks, pc, total, idx, exc, current_task, usage>>
        /\ UNCHANGED notReg

\* lines 495-510: allocate the id (uuid4) and write the queued record
StartCreate(u, seg) ==
    \E t \in TaskIds :
        /\ t = Cardinality(DOMAIN video_upscale_tasks) + 1
        /\ handler[t] = "idle"
        /\ video_upscale_tasks' = _set_video_upscale_task(video_upscale_tasks, t,
               QueuedRecord(u, seg))
        /\ handler' = [handler EXCEPT ![t] = "created"]
        /\ UNCHANGED <<pc, total, idx, exc, current_task, usage>>
        /\ UNCHANGED notReg

\* lines 512-518: start the worker thread and answer {task_id, queued}
StartSpawn(t) ==
    /\ handler[t] = "created"
    /\ handler' = [handler EXCEPT ![t] = "returned"]
    /\ pc' = [pc EXCEPT ![t] = "start"]
    /\ UNCHANGED <<video_upscale_tasks, total, idx, exc, current_task, usage>>
    /\ UNCHANGED notReg

(***************************************************************************)
(* routes.py: _run_video_upscale_task, the worker of task t                *)
(***************************************************************************)
Write(t, patch) ==
    video_upscale_tasks' = _set_video_upscale_task(video_upscale_tasks, t, patch)

Raise(t, msg) ==
    /\ pc' = [pc EXCEPT ![t] = "except"]
    /\ exc' = [exc EXCEPT ![t] = msg]

\* line 436
WorkerBegin(t) ==
    /\ pc[t] = "start"
    /\ Write(t, [status |-> "running"])
    /\ pc' = [pc EXCEPT ![t] = "prepare"]
    /\ UNCHANGED <<handler, total, idx, exc, current_task, usage>>
    /\ UNCHANGED notReg

\* comfyui.py 919-931: load the template, materialize, split, progress_cb(0, total)
PrepareOk(t) ==
    /\ pc[t] = "prepare"
    /\ \E n \in 1..MaxChunks :
        /\ total' = [total EXCEPT ![t] = n]
        /\ Write(t, _on_progress(0, n))
    /\ idx' = [idx EXCEPT ![t] = 0]
    /\ pc' = [pc EXCEPT ![t] = "chunk"]
    /\ UNCHANGED <<handler, exc, current_task, usage>>
    /\ UNCHANGED notReg

PrepareFail(t) ==
    /\ pc[t] = "prepare"
    /\ \E msg \in PrepareErrors : Raise(t, msg)
    /\ UNCHANGED <<video_upscale_tasks, handler, total, idx, current_task, usage>>
    /\ UNCHANGED notReg

\* comfyui.py 932-957: one chunk through upload, patch, submit, poll, pick,
\* download, then progress_cb(idx + 1, total)
ChunkOk(t) ==
    /\ pc[t] = "chunk"
    /\ Write(t, _on_progress(idx[t] + 1, total[t]))
    /\ idx' = [idx EXCEPT ![t] = idx[t] + 1]
    /\ pc' = [pc EXCEPT ![t] = IF idx[t] + 1 = total[t] THEN "concat" ELSE "chunk"]
    /\ UNCHANGED <<handler, total, exc, current_task, usage>>
    /\ UNCHANGED notReg

ChunkFail(t) ==
    /\ pc[t] = "chunk"
    /\ \E msg \in ChunkErrors : Raise(t, msg)
    /\ UNCHANGED <<video_upscale_tasks, handler, total, idx, current_task, usage>>
    /\ UNCHANGED notReg

\* comfyui.py 959-966 and routes.py 443-447: concat, read the bytes,
\* reject an empty result, then read the record back
ConcatOk(t) ==
    /\ pc[t] = "concat"
    /\ current_task' = [current_task EXCEPT
           ![t] = _get_video_upscale_task(video_upscale_tasks, t).rec]
    /\ pc' = [pc EXCEPT ![t] = "finish"]
    /\ UNCHANGED <<video_upscale_tasks, handler, total, idx, exc, usage>>
    /\ UNCHANGED notReg

ConcatFail(t) ==
    /\ pc[t] = "concat"
    /\ \E msg \in ConcatErrors \cup {"No video returned"} : Raise(t, msg)
    /\ UNCHANGED <<video_upscale_tasks, handler, total, idx, current_task, usage>>
    /\ UNCHANGED notReg

\* lines 448-457
WriteSuccess(t) ==
    /\ pc[t] = "finish"
    /\ Write(t, SuccessPatch(current_task[t], bytes_to_data_url("v")))
    /\ pc' = [pc EXCEPT ![t] = "account"]
    /\ UNCHANGED <<handler, total, idx, exc, current_task, usage>>
    /\ UNCHANGED notReg

\* lines 458-470: prompt_logger.log swallows its own errors; record_usage
\* runs an INSERT under db_lock and commits
AccountOk(t) ==
    /\ pc[t] = "account"
    /\ LET u == video_upscale_tasks[t]["user_id"]
       IN  usage' = [usage EXCEPT ![u] = usage[u] + 1]
    /\ pc' = [pc EXCEPT ![t] = "done"]
    /\ UNCHANGED <<video_upscale_tasks, handler, total, idx, exc, current_task>>
    /\ UNCHANGED notReg

\* record_usage raises (sqlite3.OperationalError: locked database, missing
\* table, full disk); the call is inside the try block
AccountFail(t) ==
    /\ pc[t] = "account"
    /\ Raise(t, "database is locked")
    /\ UNCHANGED <<video_upscale_tasks, handler, total, idx, current_task, usage>>
    /\ UNCHANGED notReg

\* lines 471-490: the except block
WriteError(t) ==
    /\ pc[t] = "except"
    /\ Write(t, ErrorPatch(exc[t]))
    /\ pc' = [pc EXCEPT ![t] = "done"]
    /\ UNCHANGED <<handler, total, idx, exc, current_task, usage>>
    /\ UNCHANGED notReg

Next ==
    \/ \E u \in Users, seg \in SegmentInputs : StartCreate(u, seg)
    \/ \E t \in TaskIds : StartSpawn(t)
    \/ \E t \in TaskIds : WorkerBegin(t)
    \/ \E t \in TaskIds : PrepareOk(t)
    \/ \E t \in TaskIds : PrepareFail(t)
    \/ \E t \in TaskIds : ChunkOk(t)
    \/ \E t \in TaskIds : ChunkFail(t)
    \/ \E t \in TaskIds : ConcatOk(t)
    \/ \E t \in TaskIds : ConcatFail(t)
    \/ \E t \in TaskIds : WriteSuccess(t)
    \/ \E t \in TaskIds : AccountOk(t)
    \/ \E t \in TaskIds : AccountFail(t)
    \/ \E t \in TaskIds : WriteError(t)

Spec == Init /\ [][Next]_vars

TypeOK ==
    /\ DOMAIN video_upscale_tasks \subseteq TaskIds
    /\ \A t \in TaskIds : pc[t] \in {"none", "start", "prepare", "chunk", "concat", "run",
                                     "finish", "account", "except", "done"}
(***************************************************************************)
(* Properties of the task registry (specification Spec)                    *)
(***************************************************************************)
Terminal == {"success", "error"}
StatusMoves == {<<"queued", "running">>, <<"running", "running">>,
                <<"running", "success">>, <<"running", "error">>}
Created == DOMAIN video_upscale_tasks
Rec(t) == video_upscale_tasks[t]

\* C1: status only moves queued -> running -> success | error, and once a
\* record is terminal no later worker step changes any field of it.
C1_TerminalIsFinal ==
    [][\A t \in Created :
          /\ Rec(t)["status"] \in Terminal => video_upscale_tasks'[t] = Rec(t)
          /\ video_upscale_tasks'[t] # Rec(t) =>
                 <<Rec(t)["status"], video_upscale_tasks'[t]["status"]>> \in StatusMoves
      ]_vars

\* C2: in every snapshot a status call can return, video is present iff
\* status is success and error is present iff status is error.
C2_ResultIffSuccess ==
    \A t \in Created, u \in Users :
        LET r == video_upscale_status(video_upscale_tasks, t, u)
        IN  r.code = 200 =>
              /\ (r.video # None) <=> (r.status = "success")
              /\ (r.error # None) <=> (r.status = "error")

\* C3 as stated: progress equals 1.0 if and only if status is success.
C3_ProgressOneIffSuccess ==
    \A t \in Created : (Rec(t)["progress"] = One) <=> (Rec(t)["status"] = "success")

\* C3 as amended: success implies progress 1.0; progress is 1.0 exactly in
\* the records whose completed_chunks equals total_chunks >= 1 (the running
\* record after the last chunk, success, and an error written after that).
C3_SuccessImpliesProgressOne ==
    \A t \in Created :
        /\ Rec(t)["status"] = "success" => Rec(t)["progress"] = One
        /\ Rec(t)["progress"] = One <=>
              (Rec(t)["total_chunks"] >= 1 /\
               Rec(t)["completed_chunks"] = Rec(t)["total_chunks"])
        /\ Rec(t)["status"] = "queued" => Rec(t)["progress"] = Zero

C3_Witness ==
    \E t \in Created : Rec(t)["status"] = "success" /\ Rec(t)["total_chunks"] >= 2

\* C4: progress always lies in [0.0, 1.0], and neither progress nor
\* completed_chunks decreases from one registry state to the next.
C4_ProgressMonotone ==
    /\ [](\A t \in Created :
            FracLeq(Zero, Rec(t)["progress"]) /\ FracLeq(Rec(t)["progress"], One))
    /\ [][\A t \in Created :
            /\ FracLeq(Rec(t)["progress"], video_upscale_tasks'[t]["progress"])
            /\ Rec(t)["completed_chunks"] <= video_upscale_tasks'[t]["completed_chunks"]
         ]_vars

C4_Witness ==
    \E t \in Created :
        /\ Rec(t)["status"] = "error"
        /\ Rec(t)["completed_chunks"] >= 1
        /\ Rec(t)["completed_chunks"] < Rec(t)["total_chunks"]
(***************************************************************************)
(* ark_video.py: poll_video_task                                           *)
(***************************************************************************)
MaxRounds == 3
PayloadSizes == {120, 900}   \* len(json.dumps(status_data)) of a response
MessageLimit == 500

\* the mutant of StatusOf: only the top-level status is read
StatusOf_top_only(status_data) ==
    IF "status" \in DOMAIN status_data THEN status_data["status"] ELSE None

\* status_data.get("status") or (status_data.get("data") or {}).get("status")
StatusOf(status_data) ==
    LET top == IF "status" \in DOMAIN status_data THEN status_data["status"] ELSE None
        data == IF "data" \in DOMAIN status_data THEN status_data["data"] ELSE EmptyDict
    IN  IF top \notin {None, ""} THEN top
        ELSE IF "status" \in DOMAIN data THEN data["status"] ELSE None

\* the mutant of IsTerminalStatus: only a succeeded task ends polling
IsTerminalStatus_succeeded_only(status) == status = "succeeded"

\* status in ("succeeded", "failed")
IsTerminalStatus(status) == status \in {"succeeded", "failed"}

\* the shapes a status payload takes; n tells the rounds' payloads apart
StatusShapes ==
    { [status |-> "running"], [status |-> "succeeded"], [status |-> "failed"],
      [data |-> [status |-> "succeeded"]], [data |-> [status |-> "failed"]],
      [data |-> [status |-> "queued"]],
      [status |-> "running", data |-> [status |-> "succeeded"]],
      [status |-> "", data |-> [status |-> "failed"]],
      [content |-> "x"] }

VideoPayloads(n) ==
    { shape @@ [n |-> n, size |-> sz] : shape \in StatusShapes, sz \in PayloadSizes }

\* what requests.get(status_url, timeout=10) and r.json() produce in round n
VideoResponses(n) ==
    { [kind |-> "exception"], [kind |-> "http", code |-> 500] }
    \cup { [kind |-> "http", code |-> 200, body |-> p] : p \in VideoPayloads(n) }

\* the mutant of DumpsCut: the text is not cut
DumpsCut_uncut(x, limit) ==
    IF x = NoneDict THEN [of |-> NoneDict, chars |-> 4]
    ELSE [of |-> x, chars |-> x["size"]]

\* json.dumps(x, ensure_ascii=False)[:limit], as the payload it prints and the
\* number of its characters that survive the cut
DumpsCut(x, limit) ==
    IF x = NoneDict THEN [of |-> NoneDict, chars |-> 4]
    ELSE [of |-> x, chars |-> Min(x["size"], limit)]

InitVideoPoll ==
    /\ poller = "video"
    /\ poll_pc = "polling"
    /\ max_rounds \in 0..MaxRounds
    /\ round = 0
    /\ sleeps = 0
    /\ responses = <<>>
    /\ last_status_data = NoneDict
    /\ clock = 0
    /\ deadline = 0
    /\ last_err = None
    /\ last_resp = [kind |-> "none"]
    /\ poll_result = [kind |-> "none"]

\* lines 162-172: one iteration of the for loop
VideoRound(resp) ==
    /\ poller = "video"
    /\ poll_pc = "polling"
    /\ round < max_rounds
    /\ sleeps' = sleeps + 1
    /\ round' = round + 1
    /\ responses' = Append(responses, resp)
    /\ IF resp.kind = "exception"
       THEN /\ poll_pc' = "raised"
            /\ poll_result' = [kind |-> "RequestException"]
            /\ UNCHANGED last_status_data
       ELSE IF resp.code # 200
       THEN UNCHANGED <<poll_pc, poll_result, last_status_data>>
       ELSE /\ last_status_data' = resp.body
            /\ IF IsTerminalStatus(StatusOf(resp.body))
               THEN /\ poll_pc' = "returned"
                    /\ poll_result' = [kind |-> "return", value |-> resp.body]
               ELSE UNCHANGED <<poll_pc, poll_result>>
    /\ UNCHANGED <<poller, max_rounds, clock, deadline, last_err, last_resp>>
    /\ UNCHANGED notPoll

\* line 175: the loop ran out
VideoTimeout ==
    /\ poller = "video"
    /\ poll_pc = "polling"
    /\ round >= max_rounds
    /\ poll_pc' = "timeout"
    /\ poll_result' = [kind |-> "TimeoutError",
                       last |-> DumpsCut(last_status_data, MessageLimit)]
    /\ UNCHANGED <<poller, max_rounds, round, sleeps, responses, last_status_data,
                   clock, deadline, last_err, last_resp>>
    /\ UNCHANGED notPoll

(***************************************************************************)
(* comfyui.py: _wait_for_history                                           *)
(***************************************************************************)
MaxTimeout == 3
COMFYUI_TIMEOUT_SEC == 120
COMFYUI_POLL_INTERVAL_SEC == 1
TimeoutInputs == 0..MaxTimeout      \* timeout_sec; 0 stands for None
RequestSeconds == {0, 1}            \* how long one GET /history takes
PromptId == "p1"

\* timeout_sec if timeout_sec and timeout_sec > 0 else COMFYUI_TIMEOUT_SEC
EffectiveTimeout(timeout_sec) ==
    IF timeout_sec > 0 THEN timeout_sec ELSE COMFYUI_TIMEOUT_SEC

HistoryEntry(n) == [outputs |-> "outputs", n |-> n]

\* what requests.get(/history/{prompt_id}) produces at time n
HistoryResponses(n) ==
    { [kind |-> "exception", msg |-> m] : m \in {"connection refused", "read timed out"} }
    \cup { [kind |-> "http", code |-> 500, body |-> EmptyDict] }
    \cup { [kind |-> "http", code |-> 200, body |-> b] :
             b \in { EmptyDict, "p0" :> HistoryEntry(n), PromptId :> HistoryEntry(n) } }

InitHistoryPoll ==
    /\ poller = "history"
    /\ poll_pc = "polling"
    /\ max_rounds = 0
    /\ round = 0
    /\ sleeps = 0
    /\ responses = <<>>
    /\ last_status_data = NoneDict
    /\ clock = 0
    /\ \E timeout_sec \in TimeoutInputs : deadline = EffectiveTimeout(timeout_sec)
    /\ last_err = None
    /\ last_resp = [kind |-> "none"]
    /\ poll_result = [kind |-> "none"]

\* the mutant of HistoryRound: a transport exception is not caught
HistoryRound_uncaught(resp, d) ==
    /\ poller = "history"
    /\ poll_pc = "polling"
    /\ clock < deadline
    /\ round' = round + 1
    /\ last_resp' = resp
    /\ last_err' = IF resp.kind = "exception" THEN resp.msg ELSE last_err
    /\ IF resp.kind = "exception"
       THEN /\ poll_pc' = "raised"
            /\ poll_result' = [kind |-> "RequestException"]
            /\ clock' = clock + d
            /\ UNCHANGED sleeps
       ELSE IF resp.code = 200 /\ PromptId \in DOMAIN resp.body
       THEN /\ poll_pc' = "returned"
            /\ poll_result' = [kind |-> "return", value |-> resp.body[PromptId]]
            /\ clock' = clock + d
            /\ UNCHANGED sleeps
       ELSE /\ sleeps' = sleeps + 1
            /\ clock' = clock + d + COMFYUI_POLL_INTERVAL_SEC
            /\ UNCHANGED <<poll_pc, poll_result>>
    /\ UNCHANGED <<poller, max_rounds, responses, last_status_data, deadline>>
    /\ UNCHANGED notPoll

\* lines 78-87: one iteration of the while loop
HistoryRound(resp, d) ==
    /\ poller = "history"
    /\ poll_pc = "polling"
    /\ clock < deadline
    /\ round' = round + 1
    /\ last_resp' = resp
    /\ last_err' = IF resp.kind = "exception" THEN resp.msg ELSE last_err
    /\ IF resp.kind = "http" /\ resp.code = 200 /\ PromptId \in DOMAIN resp.body
       THEN /\ poll_pc' = "returned"
            /\ poll_result' = [kind |-> "return", value |-> resp.body[PromptId]]
            /\ clock' = clock + d
            /\ UNCHANGED sleeps
       ELSE /\ sleeps' = sleeps + 1
            /\ clock' = clock + d + COMFYUI_POLL_INTERVAL_SEC
            /\ UNCHANGED <<poll_pc, poll_result>>
    /\ UNCHANGED <<poller, max_rounds, responses, last_status_data, deadline>>
    /\ UNCHANGED notPoll

\* line 88: the deadline has passed
HistoryTimeout ==
    /\ poller = "history"
    /\ poll_pc = "polling"
    /\ clock >= deadline
    /\ poll_pc' = "timeout"
    /\ poll_result' = [kind |-> "ComfyUiError", timeout |-> deadline, last_err |-> last_err]
    /\ UNCHANGED <<poller, max_rounds, round, sleeps, responses, last_status_data,
                   clock, deadline, last_err, last_resp>>
    /\ UNCHANGED notPoll

InitPoll ==
    /\ InitVideoPoll \/ InitHistoryPoll
    /\ InitReg /\ IdlePatch /\ IdleRun /\ IdlePick /\ IdleSort /\ IdleLock /\ IdleWork /\ IdleConcat /\ IdleFetch /\ IdleStart /\ IdleVideo /\ IdleGen /\ IdleAngles

NextPoll ==
    \/ \E resp \in VideoResponses(round + 1) : VideoRound(resp)
    \/ VideoTimeout
    \/ \E resp \in HistoryResponses(clock), d \in RequestSeconds : HistoryRound(resp, d)
    \/ HistoryTimeout

SpecPoll == InitPoll /\ [][NextPoll]_vars

(***************************************************************************)
(* Properties of the pollers (specification SpecPoll)                      *)
(***************************************************************************)
\* a 200 response whose status is succeeded or failed
ObservesTerminal(resp) ==
    /\ resp.kind = "http"
    /\ resp.code = 200
    /\ StatusOf(resp.body) \in {"succeeded", "failed"}

RoundsObservingTerminal == { i \in 1..Len(responses) : ObservesTerminal(responses[i]) }
QueryRaised == \E i \in 1..Len(responses) : responses[i].kind = "exception"
PollEnded == poll_pc \in {"returned", "timeout", "raised"}

\* the payload of the last 200 response among the first n, None if there is none
RECURSIVE LastPayload(_, _)
LastPayload(resps, n) ==
    IF n = 0 THEN NoneDict
    ELSE IF resps[n].kind = "http" /\ resps[n].code = 200 THEN resps[n].body
    ELSE LastPayload(resps, n - 1)

\* at most max_rounds queries, one sleep before each; a terminal status ends
\* polling in the round that observes it and is returned
PollReturnsFirstTerminal ==
    /\ round <= max_rounds
    /\ round = Len(responses) /\ sleeps = round
    /\ poll_pc = "polling" => RoundsObservingTerminal = {}
    /\ RoundsObservingTerminal # {} =>
          /\ RoundsObservingTerminal = {round}
          /\ poll_pc = "returned"
          /\ poll_result = [kind |-> "return", value |-> responses[round].body]
    /\ poll_pc = "returned" => RoundsObservingTerminal # {}

\* C5 as stated: at most max_rounds status queries; a terminal status first
\* observed on round k <= max_rounds is returned; if no round observes a
\* terminal status the call raises TimeoutError after exactly max_rounds rounds.
C5_PollBudget ==
    poller = "video" =>
        /\ PollReturnsFirstTerminal
        /\ (PollEnded /\ RoundsObservingTerminal = {}) =>
               (poll_pc = "timeout" /\ round = max_rounds)

\* C5 as amended: the same, except that the TimeoutError after exactly
\* max_rounds rounds is promised only when every status query returned a
\* response; a query that raises ends polling at once with that exception.
C5_PollBudgetUnlessQueryRaises ==
    poller = "video" =>
        /\ PollReturnsFirstTerminal
        /\ (PollEnded /\ RoundsObservingTerminal = {} /\ ~QueryRaised) =>
               (poll_pc = "timeout" /\ round = max_rounds)
        /\ QueryRaised =>
               (poll_pc = "raised" /\ responses[round].kind = "exception"
                /\ poll_result.kind # "TimeoutError")

C5_Witness ==
    /\ poller = "video"
    /\ poll_pc = "returned"
    /\ max_rounds >= 2
    /\ round = max_rounds

MaxPatches == 2

IsDict(x) == x # NoneDict
Get(d, k) == IF k \in DOMAIN d THEN d[k] ELSE NoneDict       \* d.get(k)

\* the mutant of _set_node_input: missing pieces are created (setdefault)
_set_node_input_setdefault(workflow, node_id, key, value) ==
    LET node == IF IsDict(Get(workflow, node_id)) THEN workflow[node_id] ELSE EmptyDict
        inputs == IF IsDict(Get(node, "inputs")) THEN node["inputs"] ELSE EmptyDict
        patched == ("inputs" :> ((key :> value) @@ inputs)) @@ node
    IN  [raised |-> None, workflow |-> (node_id :> patched) @@ workflow]

\* the mutant of _set_node_input: the inputs mapping is replaced, not updated
_set_node_input_replace(workflow, node_id, key, value) ==
    LET node == Get(workflow, node_id)
    IN  IF ~IsDict(node)
        THEN [raised |-> "Workflow node missing", workflow |-> workflow]
        ELSE IF ~IsDict(Get(node, "inputs"))
        THEN [raised |-> "Workflow node inputs missing", workflow |-> workflow]
        ELSE [raised |-> None,
              workflow |-> [workflow EXCEPT ![node_id] =
                              [node EXCEPT !["inputs"] = (key :> value)]]]

\* lines 162-169; the dict is updated in place, so the result carries the
\* workflow after the call together with the error raised, if any
_set_node_input(workflow, node_id, key, value) ==
    LET node == Get(workflow, node_id)
    IN  IF ~IsDict(node)
        THEN [raised |-> "Workflow node missing", workflow |-> workflow]
        ELSE LET inputs == Get(node, "inputs")
             IN  IF ~IsDict(inputs)
                 THEN [raised |-> "Workflow node inputs missing", workflow |-> workflow]
                 ELSE [raised |-> None,
                       workflow |-> [workflow EXCEPT ![node_id] =
                                       [node EXCEPT !["inputs"] = (key :> value) @@ inputs]]]

\* the upscale workflow file and ways in which it can be incomplete
UpscaleTemplate ==
    ("9" :> [class_type |-> "VHS_LoadVideo",
             inputs |-> [file |-> "example.mp4", fps |-> "0"]])
    @@ ("10" :> [class_type |-> "Upscale", inputs |-> [video |-> "9", scale |-> "2"]])
    @@ ("12" :> [class_type |-> "VHS_VideoCombine",
                 inputs |-> [images |-> "10", filename_prefix |-> "video/ComfyUI"]])

UpscaleTemplates ==
    { UpscaleTemplate,
      [n \in {"10", "12"} |-> UpscaleTemplate[n]],                           \* no node 9
      [n \in {"9", "10"} |-> UpscaleTemplate[n]],                            \* no node 12
      [UpscaleTemplate EXCEPT !["9"] = NoneDict],                            \* node 9 is null
      [UpscaleTemplate EXCEPT !["12"] = [class_type |-> "VHS_VideoCombine"]],  \* no inputs
      [UpscaleTemplate EXCEPT !["12"] = [class_type |-> "VHS_VideoCombine",
                                         inputs |-> NoneDict]],              \* inputs is null
      [UpscaleTemplate EXCEPT !["12"] = [class_type |-> "VHS_VideoCombine",
                                         inputs |-> [images |-> "10"]]] }    \* no such input

PatchNodeIds == {"9", "12", "77"}
PatchKeys == {"file", "filename_prefix", "seed"}
PatchValues == {"a.mp4", "b.mp4"}

InitPatch ==
    /\ p_workflow \in UpscaleTemplates
    /\ p_before = EmptyDict
    /\ p_call = [node_id |-> None]
    /\ p_raised = None
    /\ p_count = 0
    /\ InitReg /\ IdlePoll /\ IdleRun /\ IdlePick /\ IdleSort /\ IdleLock /\ IdleWork /\ IdleConcat /\ IdleFetch /\ IdleStart /\ IdleVideo /\ IdleGen /\ IdleAngles

\* one call _set_node_input(workflow, node_id, key, value)
SetNodeInput(node_id, key, value) ==
    /\ p_workflow # EmptyDict
    /\ p_count < MaxPatches
    /\ p_raised = None
    /\ LET r == _set_node_input(p_workflow, node_id, key, value)
       IN  /\ p_workflow' = r.workflow
           /\ p_raised' = r.raised
    /\ p_before' = p_workflow
    /\ p_call' = [node_id |-> node_id, key |-> key, value |-> value]
    /\ p_count' = p_count + 1
    /\ UNCHANGED notPatch

NextPatch ==
    \E node_id \in PatchNodeIds, key \in PatchKeys, value \in PatchValues :
        SetNodeInput(node_id, key, value)

SpecPatch == InitPatch /\ [][NextPatch]_vars

(***************************************************************************)
(* Properties of _set_node_input (specification SpecPatch)                 *)
(***************************************************************************)
Called == p_count > 0
NodeUsable(wf, node_id) ==
    /\ node_id \in DOMAIN wf
    /\ wf[node_id] # NoneDict
    /\ "inputs" \in DOMAIN wf[node_id]
    /\ wf[node_id]["inputs"] # NoneDict

\* C8: setting an input on a node that is absent (or has no inputs mapping)
\* raises and leaves the workflow unchanged; the node is not created.
C8_AbsentNodeRaises ==
    (Called /\ ~NodeUsable(p_before, p_call.node_id)) =>
        /\ p_raised # None
        /\ p_workflow = p_before
        /\ p_call.node_id \notin DOMAIN p_before => p_call.node_id \notin DOMAIN p_workflow

C8_Witness ==
    /\ Called
    /\ p_call.node_id \notin DOMAIN p_before
    /\ p_raised # None

COMFYUI_OUTPUT_NODE_ID == "4"

\* f"{idx:04d}" for the small idx of the model
Pad4(i) == "000" \o ToString(i)
ChunkName(i) == "chunk_" \o Pad4(i) \o ".mp4"          \* chunk_%04d.mp4, line 450
\* os.path.splitext(name)[1].lower() on the file names of the model
splitext(name) ==
    CASE name \in {"out.mp4", "merged.mp4"} -> ".mp4"
      [] name = "out.GIF" -> ".gif"
      [] name = "preview.png" -> ".png"
      [] OTHER -> ""
\* lines 353-363
_guess_mime_from_ext(ext) ==
    CASE ext = ".mp4" -> "video/mp4"
      [] ext = ".webm" -> "video/webm"
      [] ext = ".mov" -> "video/quicktime"
      [] ext = ".avi" -> "video/x-msvideo"
      [] OTHER -> "application/octet-stream"

\* the rmbg workflow file and ways in which it can be incomplete
RmbgTemplate ==
    ("3" :> [class_type |-> "LoadImage", inputs |-> [image |-> "example.png"]])
    @@ ("5" :> [class_type |-> "RMBG", inputs |-> [image |-> "3", model |-> "RMBG-2.0"]])
    @@ ("4" :> [class_type |-> "SaveImage", inputs |-> [images |-> "5"]])

RmbgTemplates ==
    { RmbgTemplate,
      [n \in {"4", "5"} |-> RmbgTemplate[n]],                       \* no node 3
      [RmbgTemplate EXCEPT !["3"] = [class_type |-> "LoadImage"]] } \* no inputs

\* NoneDict as template_file stands for a file json.load cannot read
TemplateFiles(kind) ==
    (IF kind = "video" THEN UpscaleTemplates ELSE RmbgTemplates) \cup {NoneDict}

\* the shapes of the media reference the caller passes
VideoInputKinds == {"empty", "data", "baddata", "http", "file", "other"}
ImageInputKinds == {"empty", "data", "baddata"}

\* the copy mutant: the local name is bound to the template object itself
Deepcopy_alias(h) == [heap |-> h, ref |-> "template"]

\* workflow = copy.deepcopy(workflow_template): a new object with equal
\* content (lines 933, 670)
Deepcopy(h) == [heap |-> [h EXCEPT !.workflow = h.template], ref |-> "workflow"]

\* uuid.uuid4().hex is modelled by a token that is unique to the job
UploadName(kind, i) ==
    IF kind = "video" THEN "upscale-u" \o ToString(i) \o ".mp4" ELSE "rmbg-u0.png"
\* payload.get("name") or filename (line 53), the server answering name
ServerNames(kind, i) == {None, "srv-" \o UploadName(kind, i)}
Uploaded(name, filename) == IF name = None THEN filename ELSE name

\* the _set_node_input calls of a job, in order (lines 941-942, 686)
Patches(kind, i, up) ==
    IF kind = "video"
    THEN << <<"9", "file", up>>,
            <<"12", "filename_prefix", "video/upscale-req-" \o Pad4(i)>> >>
    ELSE << <<"3", "image", up>> >>

\* preferred_node_ids of the job's output pick (line 947)
PreferredNodeIds(kind) == IF kind = "video" THEN <<"12">> ELSE <<>>


\* history["outputs"] is a dict in insertion order: a sequence of
\* [id, out] entries with distinct ids; out is NoneDict when it is no dict
OutputsOf(h) == IF "outputs" \in DOMAIN h THEN h["outputs"] ELSE <<>>
OutputKeys(outputs) == [i \in 1..Len(outputs) |-> outputs[i].id]
InSeq(x, seq) == \E i \in 1..Len(seq) : seq[i] = x
OutputsGet(outputs, id) ==
    IF \E i \in 1..Len(outputs) : outputs[i].id = id
    THEN outputs[CHOOSE i \in 1..Len(outputs) : outputs[i].id = id].out
    ELSE NoneDict
\* node_output.get(key) is a non-empty list
HasItems(node_output, key) ==
    /\ IsDict(node_output)
    /\ key \in DOMAIN node_output
    /\ Len(node_output[key]) > 0

RECURSIVE FirstListed(_, _)
FirstListed(node_output, keys) ==
    IF keys = <<>> THEN [found |-> FALSE]
    ELSE IF HasItems(node_output, Head(keys))
         THEN [found |-> TRUE, item |-> node_output[Head(keys)][1]]
         ELSE FirstListed(node_output, Tail(keys))

RECURSIVE PickInOrder(_, _, _)
PickInOrder(outputs, ids, keys) ==
    IF ids = <<>> THEN [found |-> FALSE]
    ELSE LET r == FirstListed(OutputsGet(outputs, Head(ids)), keys)
         IN  IF r.found THEN r ELSE PickInOrder(outputs, Tail(ids), keys)

\* lines 129-143
_pick_output_file(h, preferred_node_ids) ==
    LET outputs == OutputsOf(h)
        ordered_ids == preferred_node_ids \o
            SelectSeq(OutputKeys(outputs), LAMBDA k : ~InSeq(k, preferred_node_ids))
    IN  PickInOrder(outputs, ordered_ids, <<"videos", "gifs", "files", "images">>)

\* lines 91-102; outputs[output_node_id].get fails on an entry that is no dict
_pick_output_image(h) ==
    LET outputs == OutputsOf(h)
        id == COMFYUI_OUTPUT_NODE_ID
    IN  IF InSeq(id, OutputKeys(outputs)) /\ ~IsDict(OutputsGet(outputs, id))
        THEN [found |-> FALSE, error |-> "AttributeError"]
        ELSE IF HasItems(OutputsGet(outputs, id), "images")
        THEN [found |-> TRUE, item |-> OutputsGet(outputs, id)["images"][1]]
        ELSE LET r == PickInOrder(outputs, OutputKeys(outputs), <<"images">>)
             IN  IF r.found THEN r
                 ELSE [found |-> FALSE, error |-> "No image output found in ComfyUI history"]

PickOutput(kind, h) ==
    IF kind = "video"
    THEN LET r == _pick_output_file(h, PreferredNodeIds(kind))
         IN  IF r.found THEN r
             ELSE [found |-> FALSE,
                   error |-> "No downloadable output found in ComfyUI history"]
    ELSE _pick_output_image(h)

FileInfo(name) == [filename |-> name, subfolder |-> "", type |-> "output"]

\* the history records the server can answer with
Histories(kind) ==
    IF kind = "video"
    THEN { [outputs |-> << [id |-> "12", out |-> [videos |-> <<FileInfo("out.mp4")>>]] >>],
           [outputs |-> << [id |-> "3", out |-> [images |-> <<FileInfo("preview.png")>>]],
                           [id |-> "12", out |-> [images |-> <<>>,
                                                  gifs |-> <<FileInfo("out.GIF")>>]] >>],
           [outputs |-> << [id |-> "12", out |-> NoneDict] >>] }
    ELSE { [outputs |-> << [id |-> "4", out |-> [images |-> <<FileInfo("preview.png")>>]] >>],
           [outputs |-> << [id |-> "5", out |-> [images |-> <<FileInfo("preview.png")>>]] >>],
           [outputs |-> <<>>] }


\* the text an HTTP response or a transcoder run can carry: nothing, or more
\* than any limit the code applies
FfmpegErrLimit == 500
RECURSIVE Rep(_, _)
Rep(str, n) == IF n = 0 THEN "" ELSE str \o Rep(str, n - 1)
LongText == Rep("0123456789", FfmpegErrLimit \div 5)
ResponseTexts == {"", LongText}

\* f"{what}: {resp.status_code} {resp.text}" (lines 51, 67, 154)
HttpError(what, status_code, text) == what \o ": " \o status_code \o " " \o text

\* _run_ffmpeg on a non-zero return code (lines 400-404)
FfmpegError(stage, err) ==
    LET cut == IF Len(err) > FfmpegErrLimit
               THEN SubSeq(err, 1, FfmpegErrLimit) \o "..." ELSE err
    IN  "ffmpeg failed at " \o stage \o ": " \o cut

NetCall(call, i, name, wf) == [call |-> call, idx |-> i, name |-> name, workflow |-> wf]

InitRun ==
    /\ run_kind \in {"video", "image"}
    /\ template_file \in TemplateFiles(run_kind)
    /\ video_input \in (IF run_kind = "video" THEN VideoInputKinds ELSE ImageInputKinds)
    /\ heap = [template |-> NoneDict, workflow |-> NoneDict]
    /\ workflow_ref = "workflow"
    /\ run_pc = "load"
    /\ run_idx = 0
    /\ uploaded = None
    /\ patch_i = 1
    /\ history = NoneDict
    /\ source_chunks = <<>>
    /\ processed_chunk_paths = <<>>
    /\ net = <<>>
    /\ ticks = <<>>
    /\ temp_dir = FALSE
    /\ run_result = [kind |-> "none"]
    /\ InitReg /\ IdlePoll /\ IdlePatch /\ IdlePick /\ IdleSort /\ IdleLock /\ IdleWork /\ IdleConcat /\ IdleFetch /\ IdleStart /\ IdleVideo /\ IdleGen /\ IdleAngles

\* the mutant of RunRaise: a failed remote step of a job is tried again
RunRaise_retry(msg) ==
    IF run_pc \in {"queue", "wait", "pick", "download"}
    THEN /\ run_pc' = "queue"
         /\ UNCHANGED <<run_result, temp_dir>>
    ELSE /\ run_pc' = "raised"
         /\ run_result' = [kind |-> "raised", error |-> msg]
         /\ temp_dir' = FALSE

\* an exception leaves the run; the with block removes the directory
RunRaise(msg) ==
    /\ run_pc' = "raised"
    /\ run_result' = [kind |-> "raised", error |-> msg]
    /\ temp_dir' = FALSE

\* _load_workflow (lines 38-43) and the entry of the with block (lines 919-922)
RunLoad ==
    /\ run_pc = "load"
    /\ IF template_file = NoneDict
       THEN /\ RunRaise("Failed to load workflow")
            /\ UNCHANGED heap
       ELSE /\ heap' = [heap EXCEPT !.template = template_file]
            /\ run_pc' = IF run_kind = "video" THEN "materialize" ELSE "copy"
            /\ temp_dir' = (run_kind = "video")
            /\ UNCHANGED run_result
    /\ UNCHANGED <<run_kind, template_file, video_input, workflow_ref, run_idx, uploaded,
                   patch_i, history, source_chunks, processed_chunk_paths, net, ticks>>
    /\ UNCHANGED notRun

\* _materialize_video_input (lines 409-441)
RunMaterialize(download_ok) ==
    /\ run_pc = "materialize"
    /\ net' = IF video_input = "http"
              THEN Append(net, NetCall("source", 0, "https://host/a.mp4", NoneDict))
              ELSE net
    /\ CASE video_input = "empty" -> RunRaise("Video input is empty")
         [] video_input = "baddata" -> RunRaise("Invalid data URL for video input")
         [] video_input = "http" /\ ~download_ok ->
                RunRaise("Failed to download video source")
         [] video_input = "other" ->
                RunRaise("Video input must be a data URL, http(s) URL, or existing local file")
         [] OTHER -> /\ run_pc' = "split"
                     /\ UNCHANGED <<run_result, temp_dir>>
    /\ UNCHANGED <<run_kind, template_file, video_input, heap, workflow_ref, run_idx,
                   uploaded, patch_i, history, source_chunks, processed_chunk_paths, ticks>>
    /\ UNCHANGED notRun

\* _split_video_segments (lines 447-490) and progress_cb(0, total) (lines 929-931)
RunSplit(ffmpeg_ok, n) ==
    /\ run_pc = "split"
    /\ IF ~ffmpeg_ok
       THEN /\ \E err \in ResponseTexts : RunRaise(FfmpegError("split(accurate)", err))
            /\ UNCHANGED <<source_chunks, ticks>>
       ELSE IF n = 0
       THEN /\ RunRaise("No video chunks generated during split")
            /\ UNCHANGED <<source_chunks, ticks>>
       ELSE /\ source_chunks' = [i \in 1..n |-> ChunkName(i - 1)]
            /\ ticks' = Append(ticks, <<0, n>>)
            /\ run_pc' = "copy"
            /\ UNCHANGED <<run_result, temp_dir>>
    /\ UNCHANGED <<run_kind, template_file, video_input, heap, workflow_ref, run_idx,
                   uploaded, patch_i, history, processed_chunk_paths, net>>
    /\ UNCHANGED notRun

\* workflow = copy.deepcopy(...) (lines 933, 670)
RunCopy ==
    /\ run_pc = "copy"
    /\ LET c == Deepcopy(heap)
       IN  /\ heap' = c.heap
           /\ workflow_ref' = c.ref
    /\ run_pc' = IF run_kind = "video" THEN "upload" ELSE "parse"
    /\ UNCHANGED <<run_kind, template_file, video_input, run_idx, uploaded, patch_i, history,
                   source_chunks, processed_chunk_paths, net, ticks, temp_dir, run_result>>
    /\ UNCHANGED notRun

\* parse_data_url of the image run (line 672; server.py lines 371-385)
RunParse ==
    /\ run_pc = "parse"
    /\ CASE video_input = "empty" -> RunRaise("Image data is empty")
         [] video_input = "baddata" -> RunRaise("Incorrect padding")
         [] OTHER -> /\ run_pc' = "upload"
                     /\ UNCHANGED <<run_result, temp_dir>>
    /\ UNCHANGED <<run_kind, template_file, video_input, heap, workflow_ref, run_idx,
                   uploaded, patch_i, history, source_chunks, processed_chunk_paths, net,
                   ticks>>
    /\ UNCHANGED notRun


\* _upload_file (lines 46-53), called at lines 939 and 684
RunUpload(status_ok, name) ==
    /\ run_pc = "upload"
    /\ LET filename == UploadName(run_kind, run_idx)
       IN  /\ net' = Append(net, NetCall("upload", run_idx, filename, NoneDict))
           /\ IF ~status_ok
              THEN /\ \E text \in ResponseTexts :
                        RunRaise(HttpError("ComfyUI upload failed", "500", text))
                   /\ UNCHANGED <<uploaded, patch_i>>
              ELSE /\ uploaded' = Uploaded(name, filename)
                   /\ patch_i' = 1
                   /\ run_pc' = "patch"
                   /\ UNCHANGED <<run_result, temp_dir>>
    /\ UNCHANGED <<run_kind, template_file, video_input, heap, workflow_ref, run_idx,
                   history, source_chunks, processed_chunk_paths, ticks>>
    /\ UNCHANGED notRun

\* the next _set_node_input call of the job (lines 941-942, 686); the call
\* updates the object the local name workflow is bound to
RunPatch ==
    /\ run_pc = "patch"
    /\ LET job == Patches(run_kind, run_idx, uploaded)
           p == job[patch_i]
           r == _set_node_input(heap[workflow_ref], p[1], p[2], p[3])
       IN  /\ heap' = [heap EXCEPT ![workflow_ref] = r.workflow]
           /\ IF r.raised # None
              THEN /\ RunRaise(r.raised)
                   /\ UNCHANGED patch_i
              ELSE /\ patch_i' = patch_i + 1
                   /\ run_pc' = IF patch_i = Len(job) THEN "queue" ELSE "patch"
                   /\ UNCHANGED <<run_result, temp_dir>>
    /\ UNCHANGED <<run_kind, template_file, video_input, workflow_ref, run_idx, uploaded,
                   history, source_chunks, processed_chunk_paths, net, ticks>>
    /\ UNCHANGED notRun

\* _queue_prompt (lines 60-70)
RunQueue(answer) ==
    /\ run_pc = "queue"
    /\ net' = Append(net, NetCall("prompt", run_idx, PromptId, heap[workflow_ref]))
    /\ CASE answer = "ok" -> /\ run_pc' = "wait"
                             /\ UNCHANGED <<run_result, temp_dir>>
         [] answer = "status" ->
                \E text \in ResponseTexts :
                    RunRaise(HttpError("ComfyUI prompt failed", "500", text))
         [] OTHER ->
                \E text \in ResponseTexts :
                    RunRaise("ComfyUI prompt_id missing: " \o text)
    /\ UNCHANGED <<run_kind, template_file, video_input, heap, workflow_ref, run_idx,
                   uploaded, patch_i, history, source_chunks, processed_chunk_paths, ticks>>
    /\ UNCHANGED notRun

\* _wait_for_history as the run sees it (lines 946, 692): the record of the
\* prompt or the timeout error; its rounds are the subject of SpecPoll
RunWait(timed_out, h) ==
    /\ run_pc = "wait"
    /\ net' = Append(net, NetCall("history", run_idx, PromptId, NoneDict))
    /\ IF timed_out
       THEN /\ RunRaise("ComfyUI timeout waiting for history")
            /\ UNCHANGED history
       ELSE /\ history' = h
            /\ run_pc' = "pick"
            /\ UNCHANGED <<run_result, temp_dir>>
    /\ UNCHANGED <<run_kind, template_file, video_input, heap, workflow_ref, run_idx,
                   uploaded, patch_i, source_chunks, processed_chunk_paths, ticks>>
    /\ UNCHANGED notRun

\* _pick_output_file / _pick_output_image (lines 947, 693)
RunPick ==
    /\ run_pc = "pick"
    /\ LET r == PickOutput(run_kind, history)
       IN  IF r.found
           THEN /\ run_pc' = "download"
                /\ UNCHANGED <<run_result, temp_dir>>
           ELSE RunRaise(r.error)
    /\ UNCHANGED <<run_kind, template_file, video_input, heap, workflow_ref, run_idx,
                   uploaded, patch_i, history, source_chunks, processed_chunk_paths, net,
                   ticks>>
    /\ UNCHANGED notRun


\* str(output_info.get("filename") or f"chunk_{idx:04d}.mp4") (line 950)
OutputFilename(info, i) ==
    IF "filename" \in DOMAIN info /\ info["filename"] # None
    THEN info["filename"] ELSE ChunkName(i)
\* os.path.splitext(...)[1].lower() or ".mp4" (lines 951, 958)
ExtOrMp4(ext) == IF ext = "" THEN ".mp4" ELSE ext

\* _download_file (lines 146-155); in the video run the bytes are written to
\* the chunk-indexed path, the path is appended and progress is reported
\* (lines 948-957); the image run returns the bytes (line 694)
RunDownload(download_ok) ==
    /\ run_pc = "download"
    /\ LET info == PickOutput(run_kind, history).item
           output_path == [stem |-> "chunk_" \o Pad4(run_idx),
                           ext |-> ExtOrMp4(splitext(OutputFilename(info, run_idx)))]
       IN  /\ net' = Append(net, NetCall("view", run_idx, info["filename"], NoneDict))
           /\ IF ~download_ok
              THEN /\ \E text \in ResponseTexts :
                        RunRaise(HttpError("ComfyUI download failed", "500", text))
                   /\ UNCHANGED <<run_idx, processed_chunk_paths, ticks>>
              ELSE IF run_kind = "video"
              THEN /\ processed_chunk_paths' = Append(processed_chunk_paths, output_path)
                   /\ ticks' = Append(ticks, <<run_idx + 1, Len(source_chunks)>>)
                   /\ run_idx' = run_idx + 1
                   /\ run_pc' = IF run_idx + 1 < Len(source_chunks) THEN "copy" ELSE "concat"
                   /\ UNCHANGED <<run_result, temp_dir>>
              ELSE /\ run_pc' = "returned"
                   /\ run_result' = [kind |-> "returned", bytes |-> info["filename"]]
                   /\ UNCHANGED <<run_idx, processed_chunk_paths, ticks, temp_dir>>
    /\ UNCHANGED <<run_kind, template_file, video_input, heap, workflow_ref, uploaded,
                   patch_i, history, source_chunks>>
    /\ UNCHANGED notRun

\* _concat_video_segments (lines 493-543) and the return (lines 959-966)
RunConcat(ffmpeg_ok) ==
    /\ run_pc = "concat"
    /\ LET segment_paths == processed_chunk_paths
           final_path == IF Len(segment_paths) = 1 THEN segment_paths[1]
                         ELSE [stem |-> "merged", ext |-> ".mp4"]
           final_mime == _guess_mime_from_ext(ExtOrMp4(final_path.ext))
       IN  IF segment_paths = <<>>
           THEN RunRaise("No segments to merge")
           ELSE IF Len(segment_paths) > 1 /\ ~ffmpeg_ok
           THEN \E err \in ResponseTexts : RunRaise(FfmpegError("concat(reencode)", err))
           ELSE /\ run_pc' = "returned"
                /\ run_result' = [kind |-> "returned", bytes |-> final_path,
                                  mime |-> IF final_mime = "application/octet-stream"
                                           THEN "video/mp4" ELSE final_mime]
                /\ temp_dir' = FALSE
    /\ UNCHANGED <<run_kind, template_file, video_input, heap, workflow_ref, run_idx,
                   uploaded, patch_i, history, source_chunks, processed_chunk_paths, net,
                   ticks>>
    /\ UNCHANGED notRun

\* the steps of run_video_upscale_workflow
NextVideoRun ==
    \/ RunLoad
    \/ \E ok \in BOOLEAN : RunMaterialize(ok)
    \/ \E ok \in BOOLEAN, n \in 0..MaxChunks : RunSplit(ok, n)
    \/ RunCopy
    \/ \E ok \in BOOLEAN, name \in ServerNames(run_kind, run_idx) : RunUpload(ok, name)
    \/ RunPatch
    \/ \E answer \in {"ok", "status", "no_prompt_id"} : RunQueue(answer)
    \/ \E timed_out \in BOOLEAN, h \in Histories(run_kind) : RunWait(timed_out, h)
    \/ RunPick
    \/ \E ok \in BOOLEAN : RunDownload(ok)
    \/ \E ok \in BOOLEAN : RunConcat(ok)

NextRun == NextVideoRun \/ RunParse

SpecRun == InitRun /\ [][NextRun]_vars


(***************************************************************************)
(* Properties of a workflow run (specification SpecRun)                    *)
(***************************************************************************)
JobPatches == Patches(run_kind, 0, "")
\* the template file is readable and lacks a node id the run patches
LacksPatchedNode ==
    /\ template_file # NoneDict
    /\ \E i \in 1..Len(JobPatches) : JobPatches[i][1] \notin DOMAIN template_file
TemplateErrors == {"Workflow node missing", "Workflow node inputs missing"}
TemplateErrorRaised == run_pc = "raised" /\ run_result.error \in TemplateErrors
CallsMade(calls) == {i \in 1..Len(net) : net[i].call \in calls}

\* C7 as stated: a run against a template that lacks a patched node id never
\* succeeds and makes no upload, submit, status query or download.
C7_TemplateErrorBeforeAnyNetworkCall ==
    LacksPatchedNode =>
        /\ run_pc # "returned"
        /\ CallsMade({"upload", "prompt", "history", "view"}) = {}

\* C7 as amended: such a run never succeeds and makes no submit, status query
\* or output download; the template error is raised right after the upload of
\* the first job's input, which is the only upload the run makes, and a run
\* whose upload succeeded ends with the template error.
C7_TemplateErrorBeforeSubmit ==
    LacksPatchedNode =>
        /\ run_pc # "returned"
        /\ CallsMade({"prompt", "history", "view"}) = {}
        /\ Cardinality(CallsMade({"upload"})) <= 1
        /\ (run_pc = "raised" /\ uploaded # None) => TemplateErrorRaised
        /\ TemplateErrorRaised =>
               /\ net # <<>>
               /\ net[Len(net)].call = "upload"
               /\ net[Len(net)].idx = 0

C7_Witness ==
    /\ LacksPatchedNode
    /\ TemplateErrorRaised
    /\ CallsMade({"upload"}) # {}

\* the names the upload of job i can return
JobUploadNames(kind, i) ==
    {Uploaded(name, UploadName(kind, i)) : name \in ServerNames(kind, i)}
Patched(job, node_id, key) ==
    \E i \in 1..Len(job) : job[i][1] = node_id /\ job[i][2] = key
PatchValue(job, node_id, key) ==
    job[CHOOSE i \in 1..Len(job) : job[i][1] = node_id /\ job[i][2] = key][3]
\* wf is the template with the entries of job set, and nothing else changed
OnlyOwnPatches(wf, template, job) ==
    /\ DOMAIN wf = DOMAIN template
    /\ \A n \in DOMAIN wf :
         IF \E i \in 1..Len(job) : job[i][1] = n
         THEN /\ NodeUsable(template, n)
              /\ DOMAIN wf[n] = DOMAIN template[n]
              /\ wf[n]["class_type"] = template[n]["class_type"]
              /\ DOMAIN wf[n]["inputs"] =
                     DOMAIN template[n]["inputs"] \cup {job[i][2] : i \in {j \in 1..Len(job) : job[j][1] = n}}
              /\ \A k \in DOMAIN wf[n]["inputs"] :
                     wf[n]["inputs"][k] = IF Patched(job, n, k) THEN PatchValue(job, n, k)
                                          ELSE template[n]["inputs"][k]
         ELSE wf[n] = template[n]

\* C10: the loaded template object keeps the content of the file through all
\* jobs of the run, and every workflow submitted for a job is the template
\* with that job's own patch values and no other change.
C10_JobsPatchOwnCopy ==
    /\ (run_pc # "load" /\ heap.template # NoneDict) => heap.template = template_file
    /\ \A j \in 1..Len(net) :
         net[j].call = "prompt" =>
             \E up \in JobUploadNames(run_kind, net[j].idx) :
                 OnlyOwnPatches(net[j].workflow, template_file,
                                Patches(run_kind, net[j].idx, up))

C10_Witness ==
    /\ run_pc = "returned"
    /\ \E j, k \in CallsMade({"prompt"}) :
           /\ net[j].idx # net[k].idx
           /\ net[j].workflow # net[k].workflow
    /\ heap.template = template_file


(***************************************************************************)
(* comfyui.py: one call of _pick_output_file or _pick_output_image         *)
(***************************************************************************)
MaxOutputs == 2
PickNodeIds == {"12", "3", "4"}
OutShapes == {"null", "empty", "image", "video", "gif+image"}
\* what a node of the history can hold; subfolder tells the nodes' files apart
OutputOf(shape, id) ==
    LET f(name) == [filename |-> name, subfolder |-> id, type |-> "output"]
    IN  CASE shape = "null" -> NoneDict
          [] shape = "empty" -> [images |-> <<>>]
          [] shape = "image" -> [images |-> <<f("preview.png")>>]
          [] shape = "video" -> [videos |-> <<f("out.mp4"), f("preview.png")>>]
          [] OTHER -> [gifs |-> <<f("out.GIF")>>, images |-> <<f("preview.png")>>]
OutputEntries == {[id |-> id, out |-> OutputOf(shape, id)] : id \in PickNodeIds, shape \in OutShapes}
\* dicts in insertion order with at most MaxOutputs keys
OutputDicts ==
    UNION {{o \in [1..n -> OutputEntries] : \A i, j \in 1..n : i # j => o[i].id # o[j].id}
           : n \in 0..MaxOutputs}
PickHistories == {[outputs |-> o] : o \in OutputDicts} \cup {EmptyDict}
PreferredLists == {<<>>, <<"12">>, <<"12", "3">>, <<"3", "12">>, <<"7">>}

InitPick ==
    /\ pick_fn \in {"file", "image"}
    /\ pick_history \in PickHistories
    /\ pick_preferred \in (IF pick_fn = "file" THEN PreferredLists ELSE {<<>>})
    /\ pick_pc = "call"
    /\ pick_result = [found |-> FALSE]
    /\ InitReg /\ IdlePoll /\ IdlePatch /\ IdleRun /\ IdleSort /\ IdleLock /\ IdleWork /\ IdleConcat /\ IdleFetch /\ IdleStart /\ IdleVideo /\ IdleGen /\ IdleAngles

\* _pick_output_file(history, preferred_node_ids) (lines 129-143)
PickFile ==
    /\ pick_pc = "call" /\ pick_fn = "file"
    /\ LET r == _pick_output_file(pick_history, pick_preferred)
       IN  /\ pick_pc' = IF r.found THEN "returned" ELSE "raised"
           /\ pick_result' = IF r.found THEN r
                             ELSE [found |-> FALSE,
                                   error |-> "No downloadable output found in ComfyUI history"]
    /\ UNCHANGED <<pick_fn, pick_history, pick_preferred>>
    /\ UNCHANGED notPick

\* _pick_output_image(history) (lines 91-102)
PickImage ==
    /\ pick_pc = "call" /\ pick_fn = "image"
    /\ LET r == _pick_output_image(pick_history)
       IN  /\ pick_pc' = IF r.found THEN "returned" ELSE "raised"
           /\ pick_result' = r
    /\ UNCHANGED <<pick_fn, pick_history, pick_preferred>>
    /\ UNCHANGED notPick

NextPick == PickFile \/ PickImage

SpecPick == InitPick /\ [][NextPick]_vars


(***************************************************************************)
(* Properties of output resolution (specification SpecPick)                *)
(***************************************************************************)
RecognizedKinds == IF pick_fn = "file" THEN {"videos", "gifs", "files", "images"}
                   ELSE {"images"}
PickedOutputs == OutputsOf(pick_history)
\* the preferred ids of the call; the image resolver prefers the configured node
PreferredOfCall == IF pick_fn = "file" THEN pick_preferred ELSE <<COMFYUI_OUTPUT_NODE_ID>>
\* the first items of the recognized lists the node produced
ProducedBy(id) ==
    LET e == {i \in 1..Len(PickedOutputs) : PickedOutputs[i].id = id}
    IN  UNION {{PickedOutputs[i].out[k][1] :
                  k \in {kk \in RecognizedKinds \cap DOMAIN PickedOutputs[i].out :
                           PickedOutputs[i].out[kk] # <<>>}}
               : i \in {j \in e : PickedOutputs[j].out # NoneDict}}
FirstProducing(ids) ==
    IF \E i \in 1..Len(ids) : ProducedBy(ids[i]) # {}
    THEN ids[CHOOSE i \in 1..Len(ids) :
                 /\ ProducedBy(ids[i]) # {}
                 /\ \A j \in 1..(i - 1) : ProducedBy(ids[j]) = {}]
    ELSE None
NoOutputErrors == {"No downloadable output found in ComfyUI history",
                   "No image output found in ComfyUI history"}

\* C11: the call returns an output of the first preferred node that produced
\* one, else of the first node of the result set that produced one, and it
\* raises the no-output error exactly when no node produced any.
C11_PickResolvesOutput ==
    pick_pc \in {"returned", "raised"} =>
        LET preferred == FirstProducing(PreferredOfCall)
            other == FirstProducing(OutputKeys(PickedOutputs))
            node == IF preferred # None THEN preferred ELSE other
        IN  IF node # None
            THEN /\ pick_pc = "returned"
                 /\ pick_result.item \in ProducedBy(node)
            ELSE /\ pick_pc = "raised"
                 /\ pick_result.error \in NoOutputErrors

\* the same for _pick_output_file alone
PickFileResolvesOutput == pick_fn = "file" => C11_PickResolvesOutput


(***************************************************************************)
(* Properties of a task's run as the registry shows it (specification Spec)*)
(***************************************************************************)
RecNext(t) == video_upscale_tasks'[t]

\* C12: completed_chunks moves only by +1, exactly when a chunk has been
\* processed, to the number of chunks processed so far and with
\* total_chunks = N; success is written only onto running(N/N) and keeps N/N.
C12_ChunkProgressSequence ==
    /\ [](\A t \in Created :
            (Rec(t)["status"] \in {"running", "success"} /\ Rec(t)["completed_chunks"] >= 1)
                => /\ Rec(t)["total_chunks"] = total[t]
                   /\ Rec(t)["completed_chunks"] <= total[t])
    /\ [][\A t \in Created :
            LET r == Rec(t)
                rn == RecNext(t)
            IN  /\ rn["completed_chunks"] \in {r["completed_chunks"], r["completed_chunks"] + 1}
                /\ (idx'[t] = idx[t] + 1) <=> (rn["completed_chunks"] = r["completed_chunks"] + 1)
                /\ rn["completed_chunks"] = r["completed_chunks"] + 1 =>
                       /\ rn["status"] = "running"
                       /\ rn["completed_chunks"] = idx'[t]
                       /\ rn["total_chunks"] = total[t]
                /\ (rn["status"] = "success" /\ r["status"] # "success") =>
                       /\ r["status"] = "running"
                       /\ r["completed_chunks"] = total[t]
                       /\ r["total_chunks"] = total[t]
                       /\ rn["completed_chunks"] = total[t]
                       /\ rn["total_chunks"] = total[t]
                       /\ total[t] >= 1
         ]_vars

C12_Witness ==
    \E t \in Created :
        /\ pc[t] = "done"
        /\ Rec(t)["status"] = "success"
        /\ Rec(t)["completed_chunks"] = MaxChunks
        /\ idx[t] = MaxChunks


\* the worker of t has ended after an exception raised while it processed a chunk
FailedInChunk(t) == pc[t] = "done" /\ exc[t] \in ChunkErrors

\* C13: when processing of chunk k of N fails (idx = k - 1 chunks were
\* processed before it), the task ends in error with completed_chunks = k - 1
\* and total_chunks = N, and neither the record nor a status response
\* carries a video.
C13_ChunkFailureRecord ==
    \A t \in Created :
        FailedInChunk(t) =>
            LET r == Rec(t)
                resp == video_upscale_status(video_upscale_tasks, t, r["user_id"])
            IN  /\ r["status"] = "error"
                /\ r["error"] = exc[t]
                /\ r["completed_chunks"] = idx[t]
                /\ idx[t] < total[t]
                /\ r["total_chunks"] = total[t]
                /\ "video" \notin DOMAIN r
                /\ resp.code = 200 /\ resp.status = "error" /\ resp.video = None
                /\ resp.completed_chunks = idx[t] /\ resp.total_chunks = total[t]

C13_Witness ==
    \E t \in Created :
        /\ FailedInChunk(t)
        /\ idx[t] = MaxChunks - 1
        /\ total[t] = MaxChunks
        /\ Rec(t)["status"] = "error"


(***************************************************************************)
(* One task end to end: the start handler, the worker of routes.py and the *)
(* run_video_upscale_workflow call it makes, with _on_progress as the      *)
(* progress callback                       (specification SpecTask)        *)
(***************************************************************************)
TheTask == 1

InitTask ==
    /\ InitReg /\ IdlePoll /\ IdlePatch /\ IdlePick /\ IdleSort /\ IdleLock /\ IdleWork /\ IdleConcat /\ IdleFetch /\ IdleStart /\ IdleVideo /\ IdleGen /\ IdleAngles
    /\ run_kind = "video"
    /\ template_file \in TemplateFiles("video")
    /\ video_input \in VideoInputKinds
    /\ heap = [template |-> NoneDict, workflow |-> NoneDict]
    /\ workflow_ref = "workflow"
    /\ run_pc = "idle"
    /\ run_idx = 0
    /\ uploaded = None
    /\ patch_i = 1
    /\ history = NoneDict
    /\ source_chunks = <<>>
    /\ processed_chunk_paths = <<>>
    /\ net = <<>>
    /\ ticks = <<>>
    /\ temp_dir = FALSE
    /\ run_result = [kind |-> "none"]

\* routes.py 495-510 for the one task of this specification
TaskCreate(u, seg) ==
    /\ video_upscale_tasks = EmptyDict
    /\ StartCreate(u, seg)

\* routes.py 436-442: the running write and the call of the run
TaskBegin ==
    /\ pc[TheTask] = "start"
    /\ run_pc = "idle"
    /\ Write(TheTask, [status |-> "running"])
    /\ pc' = [pc EXCEPT ![TheTask] = "run"]
    /\ run_pc' = "load"
    /\ UNCHANGED <<handler, total, idx, exc, current_task, usage>>
    /\ UNCHANGED <<run_kind, template_file, video_input, heap, workflow_ref, run_idx,
                   uploaded, patch_i, history, source_chunks, processed_chunk_paths, net,
                   ticks, temp_dir, run_result>>
    /\ UNCHANGED <<pollVars, patchVars, pickVars, sortVars, lockVars, workVars, concatVars, fetchVars, startVars, videoVars, genVars, anglesVars>>

\* progress_cb has been called with the last entry of ticks and _on_progress
\* has not written it yet; total and idx keep the arguments last written
TickPending ==
    /\ ticks # <<>>
    /\ <<idx[TheTask], total[TheTask]>> # ticks[Len(ticks)]

\* routes.py 424-433: _on_progress(done, total), inside the progress_cb call
TaskTick ==
    /\ pc[TheTask] = "run"
    /\ TickPending
    /\ LET tick == ticks[Len(ticks)]
       IN  /\ Write(TheTask, _on_progress(tick[1], tick[2]))
           /\ idx' = [idx EXCEPT ![TheTask] = tick[1]]
           /\ total' = [total EXCEPT ![TheTask] = tick[2]]
    /\ UNCHANGED <<handler, pc, exc, current_task, usage>>
    /\ UNCHANGED notReg

\* a step of the run, once the callback has returned
TaskRunStep ==
    /\ pc[TheTask] = "run"
    /\ ~TickPending
    /\ NextVideoRun

\* routes.py 443-447: the run returned; an empty result raises, else the
\* data URL is built and the record is read back
TaskReturn(empty) ==
    /\ pc[TheTask] = "run"
    /\ run_pc = "returned"
    /\ ~TickPending
    /\ IF empty
       THEN /\ Raise(TheTask, "No video returned")
            /\ UNCHANGED current_task
       ELSE /\ current_task' = [current_task EXCEPT
                  ![TheTask] = _get_video_upscale_task(video_upscale_tasks, TheTask).rec]
            /\ pc' = [pc EXCEPT ![TheTask] = "finish"]
            /\ UNCHANGED exc
    /\ UNCHANGED <<video_upscale_tasks, handler, total, idx, usage>>
    /\ UNCHANGED notReg

\* routes.py 471: the exception of the run reaches the except block
TaskRaise ==
    /\ pc[TheTask] = "run"
    /\ run_pc = "raised"
    /\ Raise(TheTask, run_result.error)
    /\ UNCHANGED <<video_upscale_tasks, handler, total, idx, current_task, usage>>
    /\ UNCHANGED notReg

NextTask ==
    \/ \E u \in Users, seg \in SegmentInputs : TaskCreate(u, seg)
    \/ StartSpawn(TheTask)
    \/ TaskBegin
    \/ TaskRunStep
    \/ TaskTick
    \/ \E empty \in BOOLEAN : TaskReturn(empty)
    \/ TaskRaise
    \/ WriteSuccess(TheTask)
    \/ AccountOk(TheTask)
    \/ AccountFail(TheTask)
    \/ WriteError(TheTask)

SpecTask == InitTask /\ [][NextTask]_vars


(***************************************************************************)
(* Properties of one task end to end (specification SpecTask)              *)
(***************************************************************************)
TaskRec == video_upscale_tasks[TheTask]
TaskCreated == TheTask \in DOMAIN video_upscale_tasks
StatusOfTask(reg) == IF TheTask \in DOMAIN reg THEN reg[TheTask]["status"] ELSE None

\* C14: once a stage has raised, the run makes no further network call,
\* processes no further chunk and never reaches reassembly or a return; the
\* worker writes status error in one step, from the except block, and then
\* changes nothing more; no chunk is uploaded or submitted twice in a run.
C14_ErrorAbortsRun ==
    /\ [][run_pc = "raised" =>
              /\ run_pc' = "raised"
              /\ UNCHANGED <<net, processed_chunk_paths, ticks, run_idx, run_result>>]_vars
    /\ [][pc[TheTask] \in {"except", "done"} =>
              /\ pc'[TheTask] \in {"except", "done"}
              /\ UNCHANGED <<net, run_pc, processed_chunk_paths>>]_vars
    /\ [][(StatusOfTask(video_upscale_tasks') = "error"
             /\ StatusOfTask(video_upscale_tasks) # "error") =>
              /\ pc[TheTask] = "except"
              /\ pc'[TheTask] = "done"]_vars
    /\ [][pc[TheTask] = "done" => UNCHANGED <<video_upscale_tasks, pc, runVars>>]_vars
    /\ [](pc[TheTask] = "done" /\ exc[TheTask] # None =>
              /\ TaskRec["status"] = "error"
              /\ TaskRec["error"] = exc[TheTask])
    /\ [](\A i, j \in CallsMade({"prompt"}) : i # j => net[i].idx # net[j].idx)
    /\ [](\A i, j \in CallsMade({"upload"}) : i # j => net[i].idx # net[j].idx)
    /\ [](\A i \in CallsMade({"upload", "prompt"}) : net[i].idx < Len(source_chunks))

C14_Witness ==
    /\ pc[TheTask] = "done"
    /\ run_pc = "raised"
    /\ run_result.error = HttpError("ComfyUI prompt failed", "500", "")
    /\ run_idx = 1
    /\ Len(source_chunks) = MaxChunks
    /\ Cardinality(CallsMade({"prompt"})) = 2
    /\ TaskRec["status"] = "error"


\* the longest message the code's own truncation (lines 402-404) lets through
ErrorTextBound == Len(FfmpegError("concat(reencode)", LongText))

\* C15: the error message stored in a record in status error never exceeds
\* a fixed bound, whatever the length of the exception text.
C15_ErrorMessageTruncated ==
    (TaskCreated /\ TaskRec["status"] = "error") => Len(TaskRec["error"]) <= ErrorTextBound


\* the run returned no bytes (routes.py 443-444)
EmptyResult == exc[TheTask] = "No video returned"

\* C33: every record with status success has completed_chunks =
\* total_chunks >= 1, progress 1.0 and a non-empty result payload; a run
\* that produced an empty result is recorded as error, never as success.
C33_SuccessRecordComplete ==
    TaskCreated =>
        /\ TaskRec["status"] = "success" =>
               /\ TaskRec["completed_chunks"] = TaskRec["total_chunks"]
               /\ TaskRec["total_chunks"] >= 1
               /\ TaskRec["progress"] = One
               /\ "video" \in DOMAIN TaskRec
               /\ TaskRec["video"] \notin {None, ""}
               /\ ~EmptyResult
        /\ EmptyResult => TaskRec["status"] \in {"running", "error"}
        /\ (EmptyResult /\ pc[TheTask] = "done") => TaskRec["status"] = "error"

\* the success record of a video of several chunks
C33_Witness ==
    /\ TaskCreated
    /\ TaskRec["status"] = "success"
    /\ TaskRec["total_chunks"] = MaxChunks
    /\ pc[TheTask] = "account"

\* C28: total_chunks is 0 from creation until the split has finished and its
\* count has been reported, is then the number of chunks N >= 1 and never
\* changes again, whatever is written later; a run that fails before or in
\* the split ends in error with total_chunks = 0.
C28_TotalChunksSetOnce ==
    /\ [](TaskCreated =>
            /\ TaskRec["total_chunks"] \in {0, Len(source_chunks)}
            /\ TaskRec["status"] = "queued" => TaskRec["total_chunks"] = 0
            /\ (source_chunks # <<>> /\ ~TickPending) =>
                   TaskRec["total_chunks"] = Len(source_chunks)
            /\ (pc[TheTask] = "done" /\ source_chunks = <<>>) =>
                   (TaskRec["status"] = "error" /\ TaskRec["total_chunks"] = 0))
    /\ [][(TaskCreated /\ video_upscale_tasks'[TheTask]["total_chunks"] # TaskRec["total_chunks"]) =>
            /\ TaskRec["total_chunks"] = 0
            /\ video_upscale_tasks'[TheTask]["total_chunks"] = Len(source_chunks)
            /\ Len(source_chunks) >= 1
            /\ Len(ticks) = 1
         ]_vars

\* the task failed after its split: the error record still carries N
C28_Witness ==
    /\ pc[TheTask] = "done"
    /\ TaskRec["status"] = "error"
    /\ TaskRec["total_chunks"] = MaxChunks
    /\ TaskRec["completed_chunks"] = 1

(***************************************************************************)
(* Fair scheduling of the one task: the start handler gets to start the    *)
(* thread, and the worker thread keeps running while it has a next step    *)
(* (every external call returns or times out, so it always has one until   *)
(* it is done).                                                            *)
(***************************************************************************)
WorkerSteps ==
    \/ TaskBegin
    \/ TaskRunStep
    \/ TaskTick
    \/ \E empty \in BOOLEAN : TaskReturn(empty)
    \/ TaskRaise
    \/ WriteSuccess(TheTask)
    \/ AccountOk(TheTask)
    \/ AccountFail(TheTask)
    \/ WriteError(TheTask)

SpecTaskFair ==
    /\ SpecTask
    /\ WF_vars(StartSpawn(TheTask))
    /\ WF_vars(WorkerSteps)

\* C16: a created task eventually is in status success or error; a history
\* wait that ran into its timeout ends the run, with no further status query.
C16_TaskReachesTerminal ==
    /\ TaskCreated ~> (StatusOfTask(video_upscale_tasks) \in Terminal)
    /\ [][(run_pc = "raised" /\ run_result.error = "ComfyUI timeout waiting for history")
              => net' = net]_vars

C16_Witness ==
    /\ TaskCreated
    /\ TaskRec["status"] = "error"
    /\ TaskRec["error"] = "ComfyUI timeout waiting for history"
    /\ Cardinality(CallsMade({"history"})) = MaxChunks

-----------------------------------------------------------------------------
\* The chunk listing of _split_video_segments (comfyui.py 447-490): the
\* transcoder writes chunk_%04d.mp4 files, glob.glob lists them in no order,
\* sorted() orders the path strings.  All paths share the directory, the
\* "chunk_" prefix and the ".mp4" suffix, so the order of two paths is the
\* order of their digit fields followed by the '.' of the suffix.

PadWidth == 4                       \* the 4 of %04d, line 450
ChunkTotals == {0, 1, 3, 12, 1001, 10001}
IndexSamples == {0, 1, 2, 10, 999, 1000, 9999, 10000}

\* the decimal digits of i, most significant first
RECURSIVE Digits(_)
Digits(i) == IF i < 10 THEN <<i>> ELSE Append(Digits(i \div 10), i % 10)

\* printf %04d: zero-padded to at least PadWidth digits, never cut
RECURSIVE ZeroPad(_)
ZeroPad(ds) == IF Len(ds) >= PadWidth THEN ds ELSE ZeroPad(<<0>> \o ds)
Format04(i) == ZeroPad(Digits(i))

\* character codes of the part of the path that differs: digits, then '.'
CodeOfDigit(d) == 48 + d
CodeOfDot == 46
NameKey(i) == [k \in 1..Len(Format04(i)) |-> CodeOfDigit(Format04(i)[k])] \o <<CodeOfDot>>

\* Python's str < str: first differing code point decides, a proper prefix is smaller
RECURSIVE LexLess(_, _)
LexLess(a, b) ==
    IF b = <<>> THEN FALSE
    ELSE IF a = <<>> THEN TRUE
    ELSE IF Head(a) # Head(b) THEN Head(a) < Head(b)
    ELSE LexLess(Tail(a), Tail(b))

\* sorted(glob.glob(...)), line 487: ascending order of the path strings
RECURSIVE sorted(_)
sorted(S) ==
    IF S = {} THEN <<>>
    ELSE LET m == CHOOSE x \in S : \A y \in S \ {x} : LexLess(NameKey(x), NameKey(y))
         IN <<m>> \o sorted(S \ {m})

InitSort ==
    /\ chunk_total \in ChunkTotals
    /\ glob_sample \in SUBSET {i \in IndexSamples : i < chunk_total}
    /\ chunk_total > 0 => glob_sample # {}
    /\ chunks = <<>>
    /\ sort_pc = "call"
    /\ InitReg /\ IdlePoll /\ IdlePatch /\ IdleRun /\ IdlePick /\ IdleLock /\ IdleWork /\ IdleConcat /\ IdleFetch /\ IdleStart /\ IdleVideo /\ IdleGen /\ IdleAngles

\* lines 487-490 with at least one file
SplitReturn ==
    /\ sort_pc = "call"
    /\ glob_sample # {}
    /\ chunks' = sorted(glob_sample)
    /\ sort_pc' = "returned"
    /\ UNCHANGED <<chunk_total, glob_sample>>
    /\ UNCHANGED notSort

\* lines 488-489: no file
SplitRaiseEmpty ==
    /\ sort_pc = "call"
    /\ glob_sample = {}
    /\ sort_pc' = "raised"
    /\ UNCHANGED <<chunk_total, glob_sample, chunks>>
    /\ UNCHANGED notSort

NextSort == SplitReturn \/ SplitRaiseEmpty

SpecSort == InitSort /\ [][NextSort]_vars

\* C17: for any number of chunks the list of source chunks returned by the
\* split is in strictly increasing index (time) order, with none of the listed
\* files lost or duplicated; the loop then processes and collects in that order.
C17_ChunksInIndexOrder ==
    sort_pc = "returned" =>
        /\ Len(chunks) = Cardinality(glob_sample)
        /\ {chunks[k] : k \in 1..Len(chunks)} = glob_sample
        /\ \A k \in 1..(Len(chunks) - 1) : chunks[k] < chunks[k + 1]

\* below 10000 chunks every digit field has PadWidth digits and the order is right
ChunksInIndexOrderBelowPadLimit ==
    (sort_pc = "returned" /\ chunk_total <= 10000) =>
        \A k \in 1..(Len(chunks) - 1) : chunks[k] < chunks[k + 1]

-----------------------------------------------------------------------------
\* The start call and the worker it spawns (specification Spec)

Started(t) == handler[t] \in {"created", "returned"}
WorkerWritten == {"running", "success", "error"}
QueuedWritten(t) == t \in Created /\ "user_id" \in DOMAIN Rec(t)

\* C19 as stated: the queued record is written before the worker is started,
\* start returns queued without waiting for a pipeline stage, a status call
\* on a returned task_id (by any caller) never yields not-found, and the
\* queued write never overwrites a write of the worker.
C19_StartWritesQueuedFirst ==
    /\ [](\A t \in TaskIds :
            /\ (Started(t) \/ pc[t] # "none") => QueuedWritten(t)
            /\ handler[t] = "returned" =>
                 \A u \in Users :
                     video_upscale_status(video_upscale_tasks, t, u).code = 200)
    /\ [][\A t \in TaskIds :
            /\ (handler[t] # "returned" /\ handler'[t] = "returned") =>
                 (pc'[t] = "start" /\ Rec(t)["status"] = "queued")
            /\ (t \in Created /\ Rec(t)["status"] \in WorkerWritten) =>
                 video_upscale_tasks'[t]["status"] # "queued"
         ]_vars

\* C19 as amended: the same, with the status call made by the user who
\* started the task; any other user is answered not-found (lines 526-527).
C19_StartWritesQueuedFirstForOwner ==
    /\ [](\A t \in TaskIds :
            /\ (Started(t) \/ pc[t] # "none") => QueuedWritten(t)
            /\ handler[t] = "returned" =>
                 \A u \in Users :
                     video_upscale_status(video_upscale_tasks, t, u).code =
                         IF u = Rec(t)["user_id"] THEN 200 ELSE 404)
    /\ [][\A t \in TaskIds :
            /\ (handler[t] # "returned" /\ handler'[t] = "returned") =>
                 (pc'[t] = "start" /\ Rec(t)["status"] = "queued")
            /\ (t \in Created /\ Rec(t)["status"] \in WorkerWritten) =>
                 video_upscale_tasks'[t]["status"] # "queued"
         ]_vars

\* start has returned, the worker has not run yet, and another task is
\* already past its first write
C19_Witness ==
    \E t, o \in TaskIds :
        /\ handler[t] = "returned" /\ pc[t] = "start"
        /\ Rec(t)["status"] = "queued"
        /\ o # t /\ o \in Created /\ Rec(o)["status"] \in WorkerWritten

-----------------------------------------------------------------------------
\* The threads around video_upscale_tasks_lock (routes.py 61-75, 420-537):
\* the start handler, the worker it spawns and a status caller, for one task.
\* Dicts are objects at addresses, so that a returned dict and the dict kept
\* in the registry can be told apart (or found to be the same object).

Addresses == {"rec", "snap_worker", "snap_poller"}
SnapAddress(th) == "snap_" \o th
UnknownId == 0
PollIds == {TheTask, UnknownId}

SetSites == {"set_queued", "set_running", "set_progress", "set_success", "set_error"}
GetSites == {"get_current", "get"}
AccessorSites == SetSites \cup GetSites
\* run_video_upscale_workflow, prompt_logger.log / sys_logger.error, record_usage
BlockingSites == {"stage", "log", "usage", "log_err"}

IdOf(th) == IF th = "poller" THEN poll_id ELSE TheTask

\* _get_video_upscale_task(task_id) or {}
SnapshotOf(r) == IF snap[r] = None THEN EmptyDict ELSE objects[snap[r]]

\* the keyword arguments of the _set_video_upscale_task call thread th is at
PatchAt(th) ==
    CASE tpc[th] = "set_queued" -> QueuedRecord(1, 0)
      [] tpc[th] = "set_running" -> [status |-> "running"]
      [] tpc[th] = "set_progress" -> _on_progress(w_done, MaxChunks)
      [] tpc[th] = "set_success" -> SuccessPatch(SnapshotOf("worker"), bytes_to_data_url("v"))
      [] tpc[th] = "set_error" -> ErrorPatch("ComfyUI upload failed")

\* where the thread goes on after the accessor returns
AfterAccessor(site) ==
    CASE site = "set_queued" -> "spawn"
      [] site \in {"set_running", "set_progress"} -> "stage"
      [] site = "get_current" -> "set_success"
      [] site = "set_success" -> "log"
      [] site = "set_error" -> "log_err"
      [] site = "get" -> "got"

\* the mutant of Release: leaving the with block keeps the lock
Release_kept(th) == th

\* __exit__ of "with video_upscale_tasks_lock", lines 66 and 73
Release(th) == "free"

\* the mutant of CopyAddress: return current itself
CopyAddress_alias(ref, fresh) == ref

\* dict(current), line 75: a new dict object
CopyAddress(ref, fresh) == fresh

InitLock ==
    /\ objects = [a \in Addresses |-> EmptyDict]
    /\ tasks_ref = EmptyDict
    /\ lock = "free"
    /\ tpc = [th \in Threads |->
                 CASE th = "starter" -> "set_queued"
                   [] th = "worker" -> "none"
                   [] th = "poller" -> "idle"]
    /\ in_with = [th \in Threads |-> FALSE]
    /\ snap = [r \in Readers |-> None]
    /\ poll_id = UnknownId
    /\ w_done = 0
    /\ committed = EmptyDict
    /\ InitReg /\ IdlePoll /\ IdlePatch /\ IdleRun /\ IdlePick /\ IdleSort /\ IdleWork /\ IdleConcat /\ IdleFetch /\ IdleStart /\ IdleVideo /\ IdleGen /\ IdleAngles

\* the mutant of Acquire: the with block is entered without waiting
Acquire_no_wait(th) ==
    /\ tpc[th] \in AccessorSites
    /\ ~in_with[th]
    /\ lock' = th
    /\ in_with' = [in_with EXCEPT ![th] = TRUE]
    /\ UNCHANGED <<objects, tasks_ref, tpc, snap, poll_id, w_done, committed>>
    /\ UNCHANGED notLock

\* __enter__ of "with video_upscale_tasks_lock": blocks until the lock is free
Acquire(th) ==
    /\ tpc[th] \in AccessorSites
    /\ ~in_with[th]
    /\ lock = "free"
    /\ lock' = th
    /\ in_with' = [in_with EXCEPT ![th] = TRUE]
    /\ UNCHANGED <<objects, tasks_ref, tpc, snap, poll_id, w_done, committed>>
    /\ UNCHANGED notLock

\* the keys of the patch that current does not hold yet with the new value
PendingFields(patch, content) ==
    {f \in DOMAIN patch : f \notin DOMAIN content \/ content[f] # patch[f]}

\* line 68, current.update(patch): one key of the patch is stored in the
\* dict; current is the registry's own dict once the task has a record
SetField(th) ==
    /\ tpc[th] \in SetSites
    /\ in_with[th]
    /\ LET task_id == IdOf(th)
           current == IF task_id \in DOMAIN tasks_ref THEN tasks_ref[task_id] ELSE "rec"
       IN  \E f \in PendingFields(PatchAt(th), objects[current]) :
               objects' = [objects EXCEPT ![current] = (f :> PatchAt(th)[f]) @@ @]
    /\ UNCHANGED <<tasks_ref, lock, tpc, in_with, snap, poll_id, w_done, committed>>
    /\ UNCHANGED notLock

\* lines 67-69 and the end of the with block: the stores that are left,
\* the assignment to the registry and __exit__
SetBody(th) ==
    /\ tpc[th] \in SetSites
    /\ in_with[th]
    /\ LET task_id == IdOf(th)
           current == IF task_id \in DOMAIN tasks_ref THEN tasks_ref[task_id] ELSE "rec"
           content == IF task_id \in DOMAIN tasks_ref THEN objects[current] ELSE EmptyDict
       IN  /\ objects' = [objects EXCEPT ![current] = PatchAt(th) @@ content]
           /\ tasks_ref' = (task_id :> current) @@ tasks_ref
    /\ lock' = Release(th)
    /\ in_with' = [in_with EXCEPT ![th] = FALSE]
    /\ tpc' = [tpc EXCEPT ![th] = AfterAccessor(tpc[th])]
    /\ w_done' = IF tpc[th] = "set_progress" THEN w_done + 1 ELSE w_done
    /\ committed' = [t \in DOMAIN tasks_ref' |-> objects'[tasks_ref'[t]]]
    /\ UNCHANGED <<snap, poll_id>>
    /\ UNCHANGED notLock

\* lines 74-75 and the end of the with block
GetBody(th) ==
    /\ tpc[th] \in GetSites
    /\ in_with[th]
    /\ LET task_id == IdOf(th)
       IN  IF task_id \in DOMAIN tasks_ref
           THEN LET current == tasks_ref[task_id]
                    fresh == SnapAddress(th)
                IN  /\ objects' = [objects EXCEPT ![fresh] = objects[current]]
                    /\ snap' = [snap EXCEPT ![th] = CopyAddress(current, fresh)]
           ELSE /\ snap' = [snap EXCEPT ![th] = None]
                /\ UNCHANGED objects
    /\ lock' = Release(th)
    /\ in_with' = [in_with EXCEPT ![th] = FALSE]
    /\ tpc' = [tpc EXCEPT ![th] = AfterAccessor(tpc[th])]
    /\ UNCHANGED <<tasks_ref, poll_id, w_done, committed>>
    /\ UNCHANGED notLock

Goto(th, from, to) ==
    /\ tpc[th] = from
    /\ tpc' = [tpc EXCEPT ![th] = to]
    /\ UNCHANGED <<objects, tasks_ref, lock, in_with, snap, poll_id, w_done, committed>>
    /\ UNCHANGED notLock

\* lines 512-518: worker.start() and the response
Spawn ==
    /\ tpc["starter"] = "spawn"
    /\ tpc' = [tpc EXCEPT !["starter"] = "returned", !["worker"] = "set_running"]
    /\ UNCHANGED <<objects, tasks_ref, lock, in_with, snap, poll_id, w_done, committed>>
    /\ UNCHANGED notLock

\* the run reaches a progress_cb call (comfyui.py 931, 957)
StageProgress == w_done <= MaxChunks /\ Goto("worker", "stage", "set_progress")
\* the run returns the video, lines 437-446
StageReturn == w_done = MaxChunks + 1 /\ Goto("worker", "stage", "get_current")
\* the run raises, line 471
StageRaise == ~in_with["worker"] /\ Goto("worker", "stage", "set_error")
\* lines 458-469
LogDone == ~in_with["worker"] /\ Goto("worker", "log", "usage")
\* line 470
UsageDone == ~in_with["worker"] /\ Goto("worker", "usage", "done")
UsageRaise == ~in_with["worker"] /\ Goto("worker", "usage", "set_error")
\* lines 478-490
LogErrDone == ~in_with["worker"] /\ Goto("worker", "log_err", "done")

\* line 523: a status call for some id
PollCall(id) ==
    /\ tpc["poller"] = "idle"
    /\ tpc' = [tpc EXCEPT !["poller"] = "get"]
    /\ poll_id' = id
    /\ UNCHANGED <<objects, tasks_ref, lock, in_with, snap, w_done, committed>>
    /\ UNCHANGED notLock

\* lines 524-537: the response is built from the returned dict
PollAnswer == ~in_with["poller"] /\ Goto("poller", "got", "idle")

\* a caller of _get_video_upscale_task that writes into the dict it was given
CallerEdits ==
    /\ tpc["poller"] = "got"
    /\ snap["poller"] # None
    /\ objects' = [objects EXCEPT ![snap["poller"]] =
                      [status |-> "edited"] @@ objects[snap["poller"]]]
    /\ tpc' = [tpc EXCEPT !["poller"] = "idle"]
    /\ UNCHANGED <<tasks_ref, lock, in_with, snap, poll_id, w_done, committed>>
    /\ UNCHANGED notLock

NextLock ==
    \/ \E th \in Threads : Acquire(th)
    \/ \E th \in Threads : SetField(th)
    \/ \E th \in Threads : SetBody(th)
    \/ \E th \in Threads : GetBody(th)
    \/ Spawn
    \/ StageProgress
    \/ StageReturn
    \/ StageRaise
    \/ LogDone
    \/ UsageDone
    \/ UsageRaise
    \/ LogErrDone
    \/ \E id \in PollIds : PollCall(id)
    \/ PollAnswer
    \/ CallerEdits

SpecLock == InitLock /\ [][NextLock]_vars

\* the registry as its readers see it: task_id -> content
RegistryValue == [t \in DOMAIN tasks_ref |-> objects[tasks_ref[t]]]
PollerStep == tpc'["poller"] # tpc["poller"] \/ in_with'["poller"] # in_with["poller"]
ReadStep(r) == tpc[r] \in GetSites /\ in_with[r] /\ ~in_with'[r]
WriterStep == \E th \in {"starter", "worker"} :
                  /\ tpc[th] \in SetSites /\ in_with[th]
                  /\ \/ ~in_with'[th]
                     \/ (tpc' = tpc /\ in_with' = in_with /\ objects' # objects)

\* C18: reading a task returns a snapshot copy: nothing the status caller
\* does with the returned record changes the registry, a later write of the
\* start handler or the worker changes no record already returned, a read
\* returns the content the record had at the read, and reading an id that
\* was never created returns None.
C18_GetReturnsSnapshot ==
    /\ [][PollerStep => RegistryValue' = RegistryValue]_vars
    /\ [][WriterStep =>
            \A r \in Readers : snap[r] # None => objects'[snap[r]] = objects[snap[r]]]_vars
    /\ [][\A r \in Readers : ReadStep(r) =>
            IF IdOf(r) \in DOMAIN tasks_ref
            THEN snap'[r] # None /\ objects'[snap'[r]] = RegistryValue[IdOf(r)]
            ELSE snap'[r] = None]_vars
    /\ []((tpc["poller"] = "got" /\ poll_id = UnknownId) => snap["poller"] = None)

\* the caller has written into a snapshot taken when the task was queued,
\* and the worker has since written success
C18_Witness ==
    /\ snap["poller"] # None
    /\ objects[snap["poller"]]["status"] = "edited"
    /\ objects[snap["poller"]]["total_chunks"] = 0
    /\ TheTask \in DOMAIN tasks_ref
    /\ RegistryValue[TheTask]["status"] = "success"
    /\ RegistryValue[TheTask]["total_chunks"] = MaxChunks

\* C20: the lock is held only inside the with blocks of the two accessors:
\* no thread holds it in a blocking stage, it is only ever acquired when
\* free, and a status caller waiting for it waits for a thread that is
\* inside an accessor body.
C20_LockScopeIsAccessorBody ==
    /\ [](\A th \in Threads :
            /\ (lock = th) <=> in_with[th]
            /\ in_with[th] => tpc[th] \in AccessorSites
            /\ tpc[th] \in BlockingSites => lock # th)
    /\ []((tpc["poller"] = "get" /\ ~in_with["poller"] /\ lock # "free") =>
            (in_with[lock] /\ tpc[lock] \in AccessorSites))
    /\ [][\A th \in Threads : (lock # th /\ lock' = th) => lock = "free"]_vars

\* the status caller is inside its read while the worker is in the run
C20_Witness ==
    /\ lock = "poller"
    /\ tpc["worker"] = "stage"
    /\ w_done >= 1

\* the thread that is inside an update, if any
Updating == {th \in {"starter", "worker"} : tpc[th] \in SetSites /\ in_with[th]}
UpdateDone(th) == th \in Updating /\ ~in_with'[th]

\* the committed content of a task, {} before its first update
CommittedOf(task_id) ==
    IF task_id \in DOMAIN committed THEN committed[task_id] ELSE EmptyDict

\* C29: an update merges its whole patch into the record as one step under
\* the lock: when it finishes the record holds every field of the patch and,
\* for every other field, the value from before the update began; and the
\* content a read returns is the content some finished update left, so it
\* holds all or none of the fields of any update, however the stores of the
\* worker and the reads of the status caller interleave.
C29_UpdateMergesAtomically ==
    /\ [][\A th \in {"starter", "worker"} : UpdateDone(th) =>
            LET patch == PatchAt(th)
                before == CommittedOf(TheTask)
                after == RegistryValue'[TheTask]
            IN  /\ DOMAIN after = DOMAIN patch \cup DOMAIN before
                /\ \A f \in DOMAIN patch : after[f] = patch[f]
                /\ \A f \in DOMAIN before \ DOMAIN patch : after[f] = before[f]
         ]_vars
    /\ [][\A r \in Readers : (ReadStep(r) /\ IdOf(r) \in DOMAIN tasks_ref) =>
            /\ Updating = {}
            /\ objects'[snap'[r]] = CommittedOf(IdOf(r))
         ]_vars
    /\ [](Updating = {} => RegistryValue = committed)

\* the status caller waits for the lock while the worker is half way
\* through the stores of a progress update
C29_Witness ==
    /\ tpc["worker"] = "set_progress" /\ in_with["worker"]
    /\ tpc["poller"] = "get" /\ ~in_with["poller"] /\ poll_id = TheTask
    /\ RegistryValue[TheTask]["completed_chunks"] # committed[TheTask]["completed_chunks"]
    /\ RegistryValue[TheTask]["progress"] = committed[TheTask]["progress"]

-----------------------------------------------------------------------------
\* The temporary workspace of run_video_upscale_workflow (comfyui.py 919-966):
\* two runs at once, each inside "with tempfile.TemporaryDirectory(...)".
\* A file is <<directory, path inside it>>.

Runs == {"a", "b"}
DirNames == {"comfyui-video-upscale-p", "comfyui-video-upscale-q", "comfyui-video-upscale-r"}
InsideWith == {"materialize", "split", "process", "concat", "read", "exit"}
Ended == {"returned", "raised"}

\* tempfile.mkdtemp: a name that does not exist yet
mkdtemp(existing) == DirNames \ existing

\* the mutant of rmtree: the directory tree is left on disk
rmtree_keep(files, d) == files

\* TemporaryDirectory.__exit__ -> shutil.rmtree(temp_dir)
rmtree(files, d) == {p \in files : p[1] # d}

SourceFile == "src/input.mp4"
SourceChunk(i) == "chunks/" \o ChunkName(i)
ProcessedChunk(i) == "processed/" \o ChunkName(i)
ConcatList == "concat_list.txt"
Merged == "merged.mp4"

\* the processed chunks of run r written so far
ProcessedCount(r) ==
    Cardinality({i \in 0..(MaxChunks + 1) : <<w_dir[r], ProcessedChunk(i)>> \in fs})

\* final_path, lines 496-497 and 505
FinalFile(r) == IF w_chunks[r] = 1 THEN ProcessedChunk(0) ELSE Merged

InitWork ==
    /\ fs = {}
    /\ dirs = {}
    /\ w_dir = [r \in Runs |-> None]
    /\ w_pc = [r \in Runs |-> "load"]
    /\ w_chunks = [r \in Runs |-> 0]
    /\ w_bytes = [r \in Runs |-> <<>>]
    /\ InitReg /\ IdlePoll /\ IdlePatch /\ IdleRun /\ IdlePick /\ IdleSort /\ IdleLock /\ IdleConcat /\ IdleFetch /\ IdleStart /\ IdleVideo /\ IdleGen /\ IdleAngles

\* line 919: _load_workflow, before the with block
WorkLoad(r, ok) ==
    /\ w_pc[r] = "load"
    /\ w_pc' = [w_pc EXCEPT ![r] = IF ok THEN "enter" ELSE "raised"]
    /\ UNCHANGED <<fs, dirs, w_dir, w_chunks, w_bytes>>
    /\ UNCHANGED notWork

\* line 922: the with block is entered
WorkEnter(r, d) ==
    /\ w_pc[r] = "enter"
    /\ d \in mkdtemp(dirs)
    /\ dirs' = dirs \cup {d}
    /\ w_dir' = [w_dir EXCEPT ![r] = d]
    /\ w_pc' = [w_pc EXCEPT ![r] = "materialize"]
    /\ UNCHANGED <<fs, w_chunks, w_bytes>>
    /\ UNCHANGED notWork

\* line 923: the source copy
WorkMaterialize(r) ==
    /\ w_pc[r] = "materialize"
    /\ fs' = fs \cup {<<w_dir[r], SourceFile>>}
    /\ w_pc' = [w_pc EXCEPT ![r] = "split"]
    /\ UNCHANGED <<dirs, w_dir, w_chunks, w_bytes>>
    /\ UNCHANGED notWork

\* line 924: the chunks
WorkSplit(r, n) ==
    /\ w_pc[r] = "split"
    /\ fs' = fs \cup {<<w_dir[r], SourceChunk(i)>> : i \in 0..(n - 1)}
    /\ w_chunks' = [w_chunks EXCEPT ![r] = n]
    /\ w_pc' = [w_pc EXCEPT ![r] = "process"]
    /\ UNCHANGED <<dirs, w_dir, w_bytes>>
    /\ UNCHANGED notWork

\* lines 932-957: one chunk is processed and written to processed/
WorkProcess(r) ==
    /\ w_pc[r] = "process"
    /\ fs' = fs \cup {<<w_dir[r], ProcessedChunk(ProcessedCount(r))>>}
    /\ w_pc' = [w_pc EXCEPT ![r] = IF ProcessedCount(r) + 1 = w_chunks[r]
                                    THEN "concat" ELSE "process"]
    /\ UNCHANGED <<dirs, w_dir, w_chunks, w_bytes>>
    /\ UNCHANGED notWork

\* line 959: _concat_video_segments writes the list and the merged file
WorkConcat(r) ==
    /\ w_pc[r] = "concat"
    /\ fs' = IF w_chunks[r] = 1 THEN fs
             ELSE fs \cup {<<w_dir[r], ConcatList>>, <<w_dir[r], Merged>>}
    /\ w_pc' = [w_pc EXCEPT ![r] = "read"]
    /\ UNCHANGED <<dirs, w_dir, w_chunks, w_bytes>>
    /\ UNCHANGED notWork

\* lines 960-961: final_bytes = f.read()
WorkRead(r) ==
    /\ w_pc[r] = "read"
    /\ <<w_dir[r], FinalFile(r)>> \in fs
    /\ w_bytes' = [w_bytes EXCEPT ![r] = <<w_dir[r], FinalFile(r)>>]
    /\ w_pc' = [w_pc EXCEPT ![r] = "exit"]
    /\ UNCHANGED <<fs, dirs, w_dir, w_chunks>>
    /\ UNCHANGED notWork

\* line 966: return leaves the with block
WorkExit(r) ==
    /\ w_pc[r] = "exit"
    /\ fs' = rmtree(fs, w_dir[r])
    /\ dirs' = dirs \ {w_dir[r]}
    /\ w_pc' = [w_pc EXCEPT ![r] = "returned"]
    /\ UNCHANGED <<w_dir, w_chunks, w_bytes>>
    /\ UNCHANGED notWork

\* an exception of any statement of the with block leaves it
WorkRaise(r) ==
    /\ w_pc[r] \in InsideWith \ {"exit"}
    /\ fs' = rmtree(fs, w_dir[r])
    /\ dirs' = dirs \ {w_dir[r]}
    /\ w_pc' = [w_pc EXCEPT ![r] = "raised"]
    /\ UNCHANGED <<w_dir, w_chunks, w_bytes>>
    /\ UNCHANGED notWork

NextWork ==
    \/ \E r \in Runs, ok \in BOOLEAN : WorkLoad(r, ok)
    \/ \E r \in Runs, d \in DirNames : WorkEnter(r, d)
    \/ \E r \in Runs : WorkMaterialize(r)
    \/ \E r \in Runs, n \in 1..MaxChunks : WorkSplit(r, n)
    \/ \E r \in Runs : WorkProcess(r)
    \/ \E r \in Runs : WorkConcat(r)
    \/ \E r \in Runs : WorkRead(r)
    \/ \E r \in Runs : WorkExit(r)
    \/ \E r \in Runs : WorkRaise(r)

SpecWork == InitWork /\ [][NextWork]_vars

Inside(r) == w_pc[r] \in InsideWith

\* C21: each video run has a workspace of its own, nothing of it is left on
\* disk once the run has returned or raised, and the returned bytes were read
\* from a file that still existed.
C21_WorkspacePrivateAndRemoved ==
    /\ [](\A r1, r2 \in Runs : (r1 # r2 /\ Inside(r1) /\ Inside(r2)) => w_dir[r1] # w_dir[r2])
    /\ [](\A p \in fs : \E r \in Runs : Inside(r) /\ w_dir[r] = p[1])
    /\ [](\A d \in dirs : \E r \in Runs : Inside(r) /\ w_dir[r] = d)
    /\ [](\A r \in Runs : w_pc[r] = "returned" => w_bytes[r] = <<w_dir[r], FinalFile(r)>>)
    /\ [][\A r \in Runs : w_bytes'[r] # w_bytes[r] => w_bytes'[r] \in fs]_vars

\* one run has returned a merged video, the other raised after writing its
\* processed chunks, and the disk is empty
C21_Witness ==
    /\ w_pc["a"] = "returned" /\ w_chunks["a"] = MaxChunks
    /\ w_pc["b"] = "raised" /\ w_chunks["b"] >= 1
    /\ w_dir["a"] = w_dir["b"]
    /\ fs = {} /\ dirs = {}

-----------------------------------------------------------------------------
\* Reassembly: _concat_video_segments (comfyui.py 493-543) and what the run
\* makes of its result (lines 959-966).  A path is its stem and extension.

\* extensions a processed chunk can have (line 951: that of the server's
\* output file name, lower-cased, ".mp4" when it has none)
ProcessedExts == {".mp4", ".webm", ".mov", ".avi", ".gif", ".png"}
ProcessedPath(i, ext) == [stem |-> "chunk_" \o Pad4(i), ext |-> ext]
MergedPath == [stem |-> "merged", ext |-> ".mp4"]
VideoTypes == {"video/mp4", "video/webm", "video/quicktime", "video/x-msvideo"}

\* the mutant of FinalMime: the guess is returned as it is
FinalMime_guess_only(final_path) == _guess_mime_from_ext(ExtOrMp4(final_path.ext))

\* lines 962-965
FinalMime(final_path) ==
    LET guess == _guess_mime_from_ext(ExtOrMp4(final_path.ext))
    IN  IF guess = "application/octet-stream" THEN "video/mp4" ELSE guess

InitConcat ==
    /\ \E n \in 0..MaxChunks :
         \E exts \in [1..n -> ProcessedExts] :
             cc_paths = [i \in 1..n |-> ProcessedPath(i - 1, exts[i])]
    /\ cc_pc = "call"
    /\ cc_cmds = <<>>
    /\ cc_result = [kind |-> "none"]
    /\ cc_mime = None
    /\ InitReg /\ IdlePoll /\ IdlePatch /\ IdleRun /\ IdlePick /\ IdleSort /\ IdleLock /\ IdleWork /\ IdleFetch /\ IdleStart /\ IdleVideo /\ IdleGen /\ IdleAngles

\* lines 494-503
ConcatCheck ==
    /\ cc_pc = "call"
    /\ IF cc_paths = <<>>
       THEN /\ cc_pc' = "raised"
            /\ cc_result' = [kind |-> "raised", error |-> "No segments to merge"]
       ELSE IF Len(cc_paths) = 1
       THEN /\ cc_pc' = "returned"
            /\ cc_result' = [kind |-> "returned", path |-> cc_paths[1]]
       ELSE /\ cc_pc' = "copy"
            /\ UNCHANGED cc_result
    /\ UNCHANGED <<cc_paths, cc_cmds, cc_mime>>
    /\ UNCHANGED notConcat

\* the mutant of ConcatCopy: the re-encode runs whatever the copy did
ConcatCopy_always_reencode(ok) ==
    /\ cc_pc = "copy"
    /\ cc_cmds' = Append(cc_cmds, [stage |-> "concat(copy)", ok |-> ok])
    /\ cc_pc' = "reencode"
    /\ UNCHANGED <<cc_paths, cc_result, cc_mime>>
    /\ UNCHANGED notConcat

\* lines 519-522
ConcatCopy(ok) ==
    /\ cc_pc = "copy"
    /\ cc_cmds' = Append(cc_cmds, [stage |-> "concat(copy)", ok |-> ok])
    /\ IF ok
       THEN /\ cc_pc' = "returned"
            /\ cc_result' = [kind |-> "returned", path |-> MergedPath]
       ELSE /\ cc_pc' = "reencode"
            /\ UNCHANGED cc_result
    /\ UNCHANGED <<cc_paths, cc_mime>>
    /\ UNCHANGED notConcat

\* lines 523-543
ConcatReencode(ok, err) ==
    /\ cc_pc = "reencode"
    /\ cc_cmds' = Append(cc_cmds, [stage |-> "concat(reencode)", ok |-> ok])
    /\ IF ok
       THEN /\ cc_pc' = "returned"
            /\ cc_result' = [kind |-> "returned", path |-> MergedPath]
       ELSE /\ cc_pc' = "raised"
            /\ cc_result' = [kind |-> "raised",
                             error |-> FfmpegError("concat(reencode)", err)]
    /\ UNCHANGED <<cc_paths, cc_mime>>
    /\ UNCHANGED notConcat

\* lines 960-966
ConcatFinish ==
    /\ cc_pc = "returned"
    /\ cc_mime' = FinalMime(cc_result.path)
    /\ cc_pc' = "done"
    /\ UNCHANGED <<cc_paths, cc_cmds, cc_result>>
    /\ UNCHANGED notConcat

NextConcat ==
    \/ ConcatCheck
    \/ \E ok \in BOOLEAN : ConcatCopy(ok)
    \/ \E ok \in BOOLEAN, err \in ResponseTexts : ConcatReencode(ok, err)
    \/ ConcatFinish

SpecConcat == InitConcat /\ [][NextConcat]_vars

CopyRun(ok) == [stage |-> "concat(copy)", ok |-> ok]
ReencodeRun(ok) == [stage |-> "concat(reencode)", ok |-> ok]
ConcatOver == cc_pc \in {"returned", "raised", "done"}

\* C22: with two or more chunks the stream copy is tried first and the
\* re-encode only after a failed copy; the merged file is returned if either
\* succeeds and the call raises only if both fail; one chunk is returned as
\* it is without a transcoder run; no chunk raises.
C22_CopyThenReencode ==
    /\ cc_cmds \in {<<>>, <<CopyRun(TRUE)>>, <<CopyRun(FALSE)>>,
                    <<CopyRun(FALSE), ReencodeRun(TRUE)>>,
                    <<CopyRun(FALSE), ReencodeRun(FALSE)>>}
    /\ (ConcatOver /\ Len(cc_paths) >= 2) =>
          IF cc_cmds \in {<<CopyRun(TRUE)>>, <<CopyRun(FALSE), ReencodeRun(TRUE)>>}
          THEN cc_result = [kind |-> "returned", path |-> MergedPath]
          ELSE cc_result.kind = "raised" /\ cc_cmds = <<CopyRun(FALSE), ReencodeRun(FALSE)>>
    /\ (ConcatOver /\ Len(cc_paths) = 1) =>
          cc_result = [kind |-> "returned", path |-> cc_paths[1]] /\ cc_cmds = <<>>
    /\ (ConcatOver /\ cc_paths = <<>>) =>
          cc_result.kind = "raised" /\ cc_cmds = <<>>

\* the copy failed and the re-encode produced the merged file
C22_Witness ==
    /\ cc_cmds = <<CopyRun(FALSE), ReencodeRun(TRUE)>>
    /\ cc_result = [kind |-> "returned", path |-> MergedPath]
    /\ Len(cc_paths) = MaxChunks

\* C23: a successful video run never reports application/octet-stream: on
\* every reassembly path and for every extension of the processed chunks the
\* media type is a video type, and video/mp4 whenever a concat was performed.
C23_FinalMimeIsVideo ==
    cc_pc = "done" =>
        /\ cc_mime # "application/octet-stream"
        /\ cc_mime \in VideoTypes
        /\ cc_cmds # <<>> => cc_mime = "video/mp4"

\* a single processed chunk whose extension is not a video extension
C23_Witness ==
    /\ cc_pc = "done"
    /\ Len(cc_paths) = 1
    /\ cc_paths[1].ext = ".gif"
    /\ cc_mime = "video/mp4"

-----------------------------------------------------------------------------
\* Fetching a job's artifact: _download_file (comfyui.py 146-155) and
\* download_video_as_data_url with its caller generate_video_from_image
\* (ark_video.py 148-153, 183-190).

StatusCodes == {200, 201, 204, 302, 403, 404, 500, 503}
Contents == {"", "v", LongText}
VideoUrl == "https://ark/out.mp4"
\* requests.get answers or raises (connection error, timeout)
GetOutcomes ==
    { [kind |-> "response", status_code |-> c, content |-> b] :
          c \in StatusCodes, b \in Contents }
    \cup { [kind |-> "exception", error |-> "ConnectionError"] }

\* resp.status_code != 200 or not resp.content
DownloadFailed(resp) ==
    resp.kind = "exception" \/ resp.status_code # 200 \/ resp.content = ""

InitFetch ==
    /\ f_fn \in {"comfyui", "ark"}
    /\ f_resp \in GetOutcomes
    /\ f_pc = "call"
    /\ f_data_url = None
    /\ f_result = [kind |-> "none"]
    /\ InitReg /\ IdlePoll /\ IdlePatch /\ IdleRun /\ IdlePick /\ IdleSort /\ IdleLock /\ IdleWork /\ IdleConcat /\ IdleStart /\ IdleVideo /\ IdleGen /\ IdleAngles

\* comfyui.py 146-155
DownloadFile ==
    /\ f_fn = "comfyui"
    /\ f_pc = "call"
    /\ IF f_resp.kind = "exception"
       THEN /\ f_pc' = "raised"
            /\ f_result' = [kind |-> "raised", error |-> f_resp.error]
       ELSE IF f_resp.status_code # 200 \/ f_resp.content = ""
       THEN /\ f_pc' = "raised"
            /\ f_result' = [kind |-> "raised",
                            error |-> HttpError("ComfyUI download failed",
                                                ToString(f_resp.status_code), f_resp.content)]
       ELSE /\ f_pc' = "returned"
            /\ f_result' = [kind |-> "returned", value |-> f_resp.content]
    /\ UNCHANGED <<f_fn, f_resp, f_data_url>>
    /\ UNCHANGED notFetch

\* ark_video.py 183-190: every failure is logged and answered with None
DownloadVideoAsDataUrl ==
    /\ f_fn = "ark"
    /\ f_pc = "call"
    /\ f_data_url' = IF f_resp.kind = "response" /\ f_resp.status_code = 200
                        /\ f_resp.content # ""
                     THEN bytes_to_data_url(f_resp.content)
                     ELSE None
    /\ f_pc' = "downloaded"
    /\ UNCHANGED <<f_fn, f_resp, f_result>>
    /\ UNCHANGED notFetch

\* ark_video.py 152-153: return data_url or video_url
GenerateReturn ==
    /\ f_fn = "ark"
    /\ f_pc = "downloaded"
    /\ f_result' = [kind |-> "returned",
                    value |-> IF f_data_url # None THEN f_data_url ELSE VideoUrl]
    /\ f_pc' = "returned"
    /\ UNCHANGED <<f_fn, f_resp, f_data_url>>
    /\ UNCHANGED notFetch

NextFetch == DownloadFile \/ DownloadVideoAsDataUrl \/ GenerateReturn

SpecFetch == InitFetch /\ [][NextFetch]_vars

FetchOver == f_pc \in {"returned", "raised"}

\* C25: fetching an artifact fails whenever the response is not 200 or the
\* body is empty (or the transport fails); a failed or empty download never
\* becomes a normal return value.
C25_FailedDownloadRaises ==
    (FetchOver /\ DownloadFailed(f_resp)) => f_result.kind = "raised"

\* the ComfyUI download alone does what the claim says
DownloadFileRaises ==
    (f_fn = "comfyui" /\ FetchOver) =>
        (f_result.kind = "raised" <=> DownloadFailed(f_resp))

-----------------------------------------------------------------------------
\* Concurrent calls of video_upscale_start (routes.py 493-518) and the
\* threads they start.

Calls == 1..MaxTasks
IdSpace == 1..(MaxTasks + 1)

\* the mutant of uuid4: a value may come back a second time
uuid4_repeat(used) == IdSpace

\* uuid.uuid4().hex, line 497: 122 random bits, taken never to repeat
uuid4(used) == IdSpace \ used

\* the mutant of ThreadsStarted: the handler starts the worker twice
ThreadsStarted_twice(c) == <<[task_id |-> s_id[c], call |-> c, pc |-> "start"],
                             [task_id |-> s_id[c], call |-> c, pc |-> "start"]>>

\* lines 512-517: one threading.Thread per call
ThreadsStarted(c) == <<[task_id |-> s_id[c], call |-> c, pc |-> "start"]>>

InitStart ==
    /\ s_pc = [c \in Calls |-> "uuid"]
    /\ s_id = [c \in Calls |-> 0]
    /\ s_user \in [Calls -> Users]
    /\ issued = {}
    /\ s_reg = EmptyDict
    /\ threads = <<>>
    /\ s_resp = [code |-> 0]
    /\ InitReg /\ IdlePoll /\ IdlePatch /\ IdleRun /\ IdlePick /\ IdleSort /\ IdleLock /\ IdleWork /\ IdleConcat /\ IdleFetch /\ IdleVideo /\ IdleGen /\ IdleAngles

\* line 497
StartUuid(c, id) ==
    /\ s_pc[c] = "uuid"
    /\ id \in uuid4(issued)
    /\ issued' = issued \cup {id}
    /\ s_id' = [s_id EXCEPT ![c] = id]
    /\ s_pc' = [s_pc EXCEPT ![c] = "write"]
    /\ UNCHANGED <<s_user, s_reg, threads, s_resp>>
    /\ UNCHANGED notStart

\* lines 500-510
StartWrite(c) ==
    /\ s_pc[c] = "write"
    /\ s_reg' = _set_video_upscale_task(s_reg, s_id[c], QueuedRecord(s_user[c], 0))
    /\ s_pc' = [s_pc EXCEPT ![c] = "spawn"]
    /\ UNCHANGED <<s_id, s_user, issued, threads, s_resp>>
    /\ UNCHANGED notStart

\* lines 512-518
StartThread(c) ==
    /\ s_pc[c] = "spawn"
    /\ threads' = threads \o ThreadsStarted(c)
    /\ s_pc' = [s_pc EXCEPT ![c] = "returned"]
    /\ UNCHANGED <<s_id, s_user, issued, s_reg, s_resp>>
    /\ UNCHANGED notStart

\* line 436: the first write of a started worker
ThreadRuns(k) ==
    /\ k \in 1..Len(threads)
    /\ threads[k].pc = "start"
    /\ s_reg' = _set_video_upscale_task(s_reg, threads[k].task_id, [status |-> "running"])
    /\ threads' = [threads EXCEPT ![k].pc = "running"]
    /\ UNCHANGED <<s_pc, s_id, s_user, issued, s_resp>>
    /\ UNCHANGED notStart

\* lines 449-457 and 472-477: the last write of a worker
ThreadEnds(k, ok) ==
    /\ k \in 1..Len(threads)
    /\ threads[k].pc = "running"
    /\ LET task_id == threads[k].task_id
           patch == IF ok
                    THEN SuccessPatch(_get_video_upscale_task(s_reg, task_id).rec,
                                      bytes_to_data_url("v"))
                    ELSE ErrorPatch("Video input is empty")
       IN  s_reg' = _set_video_upscale_task(s_reg, task_id, patch)
    /\ threads' = [threads EXCEPT ![k].pc = "done"]
    /\ UNCHANGED <<s_pc, s_id, s_user, issued, s_resp>>
    /\ UNCHANGED notStart

\* video_upscale_status (lines 521-537) by any caller, for any id
StatusCall(id, u) ==
    /\ LET r == video_upscale_status(s_reg, id, u)
       IN  s_resp' = IF r.code = 200
                     THEN [code |-> 200, task_id |-> id, status |-> r.status]
                     ELSE [code |-> r.code]
    /\ UNCHANGED <<s_pc, s_id, s_user, issued, s_reg, threads>>
    /\ UNCHANGED notStart

NextStart ==
    \/ \E c \in Calls, id \in IdSpace : StartUuid(c, id)
    \/ \E c \in Calls : StartWrite(c)
    \/ \E c \in Calls : StartThread(c)
    \/ \E k \in 1..(2 * MaxTasks) : ThreadRuns(k)
    \/ \E k \in 1..(2 * MaxTasks), ok \in BOOLEAN : ThreadEnds(k, ok)
    \/ \E id \in IdSpace, u \in Users : StatusCall(id, u)

SpecStart == InitStart /\ [][NextStart]_vars

WorkersOf(id) == {k \in 1..Len(threads) : threads[k].task_id = id}

\* C26: every start call gets a task id no record uses and starts exactly
\* one worker for it; a task_id never has two workers, and two start calls
\* never share a record.
C26_FreshIdOneWorker ==
    /\ [](\A c1, c2 \in Calls :
            (c1 # c2 /\ s_id[c1] # 0 /\ s_id[c2] # 0) => s_id[c1] # s_id[c2])
    /\ [](\A id \in IdSpace : Cardinality(WorkersOf(id)) <= 1)
    /\ [](\A c \in Calls :
            /\ s_pc[c] = "returned" => Cardinality(WorkersOf(s_id[c])) = 1
            /\ s_pc[c] \in {"uuid", "write", "spawn"} =>
                   \A k \in 1..Len(threads) : threads[k].call # c
            /\ s_pc[c] \in {"spawn", "returned"} =>
                   s_reg[s_id[c]]["user_id"] = s_user[c])
    /\ [][\A c \in Calls : s_id'[c] # s_id[c] => s_id'[c] \notin DOMAIN s_reg]_vars

\* two users have started a task each and both workers are running
C26_Witness ==
    /\ \A c \in Calls : s_pc[c] = "returned"
    /\ \E c1, c2 \in Calls : s_user[c1] # s_user[c2]
    /\ Len(threads) = MaxTasks
    /\ \A k \in 1..Len(threads) : threads[k].pc = "running"

OwnWorkerMoved(id) ==
    \E k \in 1..Len(threads) : threads[k].task_id = id /\ threads'[k].pc # threads[k].pc

\* C27: once created, a record is written only by its own task's worker:
\* a status call changes no record, and a write for one task leaves the
\* record of every other task as it was, in every interleaving.
C27_OnlyOwnWorkerWrites ==
    /\ [][\A id \in DOMAIN s_reg : s_reg'[id] # s_reg[id] => OwnWorkerMoved(id)]_vars
    /\ [][s_resp' # s_resp => s_reg' = s_reg]_vars

\* a status call saw one task running; since then that task has ended and
\* the other one has ended differently
C27_Witness ==
    /\ s_resp.code = 200 /\ s_resp.status = "running"
    /\ s_reg[s_resp.task_id]["status"] = "success"
    /\ \E id \in DOMAIN s_reg : s_reg[id]["status"] = "error"

-----------------------------------------------------------------------------
\* The img2video handler (routes.py 661-742), two requests at once.

Requests == {1, 2}
ALLOWED_VIDEO_MODELS == {"Doubao-Seedance-1.0-pro", "Doubao-Seedance-1.5-pro"}
\* req.model: Optional[str], no validation in the schema (schemas/api.py 130)
RequestModels == {None} \cup ALLOWED_VIDEO_MODELS \cup {"ep-20250101", "Doubao-Seedance-2.0"}
\* how generate_video_from_image ends
GenerateOutcomes == {"ok", "TimeoutError", "VideoGenError", "Exception"}

\* line 666: req.model or "Doubao-Seedance-1.0-pro"
SelectedModel(model) == IF model = None THEN "Doubao-Seedance-1.0-pro" ELSE model

\* the classes an exception is an instance of
ClassesOf(e) ==
    CASE e = "HTTPException" -> {"HTTPException", "Exception"}
      [] e = "TimeoutError" -> {"TimeoutError", "OSError", "Exception"}
      [] e = "VideoGenError" -> {"VideoGenError", "RuntimeError", "Exception"}
      [] e = "RuntimeError" -> {"RuntimeError", "Exception"}
      [] OTHER -> {"Exception"}

\* lines 701-742: the first except clause that matches, and the status of
\* the HTTPException it raises
ExceptStatus(e) ==
    IF "TimeoutError" \in ClassesOf(e) THEN 504
    ELSE IF "VideoGenError" \in ClassesOf(e) THEN 500
    ELSE IF "Exception" \in ClassesOf(e) THEN 500
    ELSE 0

InitVideo ==
    /\ v_pc = [r \in Requests |-> "none"]
    /\ v_model = [r \in Requests |-> None]
    /\ v_exc = [r \in Requests |-> None]
    /\ v_resp = [r \in Requests |-> 0]
    /\ submitted = {}
    /\ v_handler = [r \in Requests |-> None]
    /\ v_round = [r \in Requests |-> 0]
    /\ v_poll = [r \in Requests |-> None]
    /\ InitReg /\ IdlePoll /\ IdlePatch /\ IdleRun /\ IdlePick /\ IdleSort /\ IdleLock /\ IdleWork /\ IdleConcat /\ IdleFetch /\ IdleStart /\ IdleGen /\ IdleAngles

\* POST /api/img2video with some model
Img2VideoCall(r, model) ==
    /\ v_pc[r] = "none"
    /\ v_pc' = [v_pc EXCEPT ![r] = "check"]
    /\ v_model' = [v_model EXCEPT ![r] = model]
    /\ v_handler' = [v_handler EXCEPT ![r] = "routes"]
    /\ UNCHANGED <<v_exc, v_resp, submitted, v_round, v_poll>>
    /\ UNCHANGED notVideo

\* lines 666-669: the allow-list check, inside the try block
Img2VideoCheck(r) ==
    /\ v_pc[r] = "check"
    /\ IF SelectedModel(v_model[r]) \notin ALLOWED_VIDEO_MODELS
       THEN /\ v_exc' = [v_exc EXCEPT ![r] = "HTTPException"]
            /\ v_pc' = [v_pc EXCEPT ![r] = "except"]
       ELSE /\ v_pc' = [v_pc EXCEPT ![r] = "generate"]
            /\ UNCHANGED v_exc
    /\ UNCHANGED <<v_model, v_resp, submitted, v_handler, v_round, v_poll>>
    /\ UNCHANGED notVideo

\* how poll_video_task ended inside generate_video_from_image
\* (ark_video.py 142-146): TimeoutError is raised only by the exhausted
\* loop, and after the submission VideoGenError only for a failed task
PollEndOf(out, sent) ==
    CASE out = "ok" -> "succeeded"
      [] out = "TimeoutError" -> "exhausted"
      [] out = "VideoGenError" /\ sent -> "failed"
      [] out = "Exception" /\ sent -> "raised"
      [] OTHER -> None

\* lines 672-683: generate_video_from_image submits the remote task and
\* polls it; it can fail before the task exists or after
Img2VideoGenerate(r, out, sent) ==
    /\ v_pc[r] = "generate"
    /\ out \in {"ok", "TimeoutError"} => sent
    /\ submitted' = IF sent THEN submitted \cup {r} ELSE submitted
    /\ v_poll' = [v_poll EXCEPT ![r] = PollEndOf(out, sent)]
    /\ IF out = "ok"
       THEN /\ v_pc' = [v_pc EXCEPT ![r] = "log"]
            /\ UNCHANGED v_exc
       ELSE /\ v_pc' = [v_pc EXCEPT ![r] = "except"]
            /\ v_exc' = [v_exc EXCEPT ![r] = out]
    /\ UNCHANGED <<v_model, v_resp, v_handler, v_round>>
    /\ UNCHANGED notVideo

\* lines 684-699: prompt_logger.log, record_usage and the response
Img2VideoReturn(r, ok) ==
    /\ v_pc[r] = "log"
    /\ IF ok
       THEN /\ v_pc' = [v_pc EXCEPT ![r] = "responded"]
            /\ v_resp' = [v_resp EXCEPT ![r] = 200]
            /\ UNCHANGED v_exc
       ELSE /\ v_pc' = [v_pc EXCEPT ![r] = "except"]
            /\ v_exc' = [v_exc EXCEPT ![r] = "Exception"]
            /\ UNCHANGED v_resp
    /\ UNCHANGED <<v_model, submitted, v_handler, v_round, v_poll>>
    /\ UNCHANGED notVideo

\* lines 701-742: the except clauses of the try block
Img2VideoExcept(r) ==
    /\ v_pc[r] = "except"
    /\ v_pc' = [v_pc EXCEPT ![r] = "responded"]
    /\ v_resp' = [v_resp EXCEPT ![r] = ExceptStatus(v_exc[r])]
    /\ UNCHANGED <<v_model, v_exc, submitted, v_handler, v_round, v_poll>>
    /\ UNCHANGED notVideo

\* server.py 1054: for _ in range(40)
LegacyPollRounds == 40
\* what one status query of the legacy loop meets
LegacyAnswers == {"non200", "running", "succeeded", "failed", "exception"}

\* server.py 1083-1085: the one except clause of the legacy handler
LegacyExceptStatus(e) == IF "Exception" \in ClassesOf(e) THEN 500 ELSE 0

\* POST /api/img2video of the single-file server
LegacyCall(r) ==
    /\ v_pc[r] = "none"
    /\ v_pc' = [v_pc EXCEPT ![r] = "l_submit"]
    /\ v_handler' = [v_handler EXCEPT ![r] = "server"]
    /\ UNCHANGED <<v_model, v_exc, v_resp, submitted, v_round, v_poll>>
    /\ UNCHANGED notVideo

\* server.py 1041-1052: the task is submitted
LegacySubmit(r, ok) ==
    /\ v_pc[r] = "l_submit"
    /\ IF ok
       THEN /\ v_pc' = [v_pc EXCEPT ![r] = "l_poll"]
            /\ submitted' = submitted \cup {r}
            /\ UNCHANGED v_exc
       ELSE /\ v_pc' = [v_pc EXCEPT ![r] = "l_except"]
            /\ v_exc' = [v_exc EXCEPT ![r] = "RuntimeError"]
            /\ UNCHANGED submitted
    /\ UNCHANGED <<v_model, v_resp, v_handler, v_round, v_poll>>
    /\ UNCHANGED notVideo

\* server.py 1054-1079: one iteration of the polling loop
LegacyRound(r, answer) ==
    /\ v_pc[r] = "l_poll"
    /\ v_round[r] < LegacyPollRounds
    /\ v_round' = [v_round EXCEPT ![r] = @ + 1]
    /\ CASE answer = "succeeded" ->
              /\ v_pc' = [v_pc EXCEPT ![r] = "responded"]
              /\ v_resp' = [v_resp EXCEPT ![r] = 200]
              /\ v_poll' = [v_poll EXCEPT ![r] = "succeeded"]
              /\ UNCHANGED v_exc
         [] answer = "failed" ->
              /\ v_pc' = [v_pc EXCEPT ![r] = "l_except"]
              /\ v_exc' = [v_exc EXCEPT ![r] = "RuntimeError"]
              /\ v_poll' = [v_poll EXCEPT ![r] = "failed"]
              /\ UNCHANGED v_resp
         [] answer = "exception" ->
              /\ v_pc' = [v_pc EXCEPT ![r] = "l_except"]
              /\ v_exc' = [v_exc EXCEPT ![r] = "Exception"]
              /\ v_poll' = [v_poll EXCEPT ![r] = "raised"]
              /\ UNCHANGED v_resp
         [] OTHER -> UNCHANGED <<v_pc, v_resp, v_exc, v_poll>>
    /\ UNCHANGED <<v_model, submitted, v_handler>>
    /\ UNCHANGED notVideo

\* server.py 1081: the loop ran out, inside the try block
LegacyExhausted(r) ==
    /\ v_pc[r] = "l_poll"
    /\ v_round[r] >= LegacyPollRounds
    /\ v_pc' = [v_pc EXCEPT ![r] = "l_except"]
    /\ v_exc' = [v_exc EXCEPT ![r] = "HTTPException"]
    /\ v_poll' = [v_poll EXCEPT ![r] = "exhausted"]
    /\ UNCHANGED <<v_model, v_resp, submitted, v_handler, v_round>>
    /\ UNCHANGED notVideo

\* server.py 1083-1085
LegacyExcept(r) ==
    /\ v_pc[r] = "l_except"
    /\ v_pc' = [v_pc EXCEPT ![r] = "responded"]
    /\ v_resp' = [v_resp EXCEPT ![r] = LegacyExceptStatus(v_exc[r])]
    /\ UNCHANGED <<v_model, v_exc, submitted, v_handler, v_round, v_poll>>
    /\ UNCHANGED notVideo

NextVideo ==
    \/ \E r \in Requests, model \in RequestModels : Img2VideoCall(r, model)
    \/ \E r \in Requests : Img2VideoCheck(r)
    \/ \E r \in Requests, out \in GenerateOutcomes, sent \in BOOLEAN : Img2VideoGenerate(r, out, sent)
    \/ \E r \in Requests, ok \in BOOLEAN : Img2VideoReturn(r, ok)
    \/ \E r \in Requests : Img2VideoExcept(r)
    \/ \E r \in Requests : LegacyCall(r)
    \/ \E r \in Requests, ok \in BOOLEAN : LegacySubmit(r, ok)
    \/ \E r \in Requests, answer \in LegacyAnswers : LegacyRound(r, answer)
    \/ \E r \in Requests : LegacyExhausted(r)
    \/ \E r \in Requests : LegacyExcept(r)

SpecVideo == InitVideo /\ [][NextVideo]_vars

Unsupported(r) ==
    v_pc[r] # "none" /\ SelectedModel(v_model[r]) \notin ALLOWED_VIDEO_MODELS

\* C30: an img2video request naming a model outside the allowed set is
\* answered with HTTP status 400, and no remote video task is submitted
\* for it.
C30_UnsupportedModelIs400 ==
    \A r \in Requests :
        Unsupported(r) =>
            /\ r \notin submitted
            /\ v_pc[r] = "responded" => v_resp[r] = 400

\* what does hold: such a request is answered with an error status and no
\* remote task is submitted for it
UnsupportedModelNeverSubmitted ==
    \A r \in Requests :
        Unsupported(r) =>
            /\ r \notin submitted
            /\ v_pc[r] = "responded" => v_resp[r] = 500

Answered(r) == v_pc[r] = "responded"

\* C31: in both img2video handlers a task whose polling ran out of rounds
\* without a terminal status is answered with HTTP status 504, and a task
\* that reported failed is answered with 500.
C31_TimeoutIs504FailedIs500 ==
    \A r \in Requests :
        Answered(r) =>
            /\ v_poll[r] = "exhausted" => v_resp[r] = 504
            /\ v_poll[r] = "failed" => v_resp[r] = 500

\* what holds: the routed handler answers so; the legacy handler answers
\* 500 in both cases
RoutedTimeoutIs504LegacyIs500 ==
    \A r \in Requests :
        Answered(r) =>
            /\ v_poll[r] = "exhausted" =>
                   v_resp[r] = IF v_handler[r] = "routes" THEN 504 ELSE 500
            /\ v_poll[r] = "failed" => v_resp[r] = 500

-----------------------------------------------------------------------------
\* ids no task was created with
NeverCreated == (TaskIds \cup {0}) \ Created
Strangers(t) == {u \in Users : u # Rec(t)["user_id"]}

\* C32: a status call by a user other than the one who started the task has
\* the outcome of a status call for an id that was never created, in every
\* state of the task: the response holds nothing of the record.
C32_StrangerSeesNotFound ==
    \A t \in Created : \A u \in Strangers(t) :
        /\ \A n \in NeverCreated :
               video_upscale_status(video_upscale_tasks, t, u) =
                   video_upscale_status(video_upscale_tasks, n, u)
        /\ DOMAIN video_upscale_status(video_upscale_tasks, t, u) = {"code", "detail"}
        /\ video_upscale_status(video_upscale_tasks, t, u).code = 404

\* one task has succeeded and another has failed, each with a stranger
C32_Witness ==
    \E t, o \in Created :
        /\ Rec(t)["status"] = "success" /\ "video" \in DOMAIN Rec(t)
        /\ Rec(o)["status"] = "error" /\ Rec(o)["completed_chunks"] >= 1
        /\ Strangers(t) # {} /\ Strangers(o) # {}

\* what the owner's status call returns for task t
OwnerSnapshot(t) == video_upscale_status(video_upscale_tasks, t, Rec(t)["user_id"])
ErrorWriteStep(t) == pc[t] = "except" /\ pc'[t] = "done"

\* C34: every snapshot a poller can obtain has 0 <= completed_chunks <=
\* total_chunks, progress equal to completed_chunks / total_chunks when
\* total_chunks > 0 and to 0.0 when it is 0; and the error write leaves
\* completed_chunks, total_chunks and progress at their last values.
C34_CountersAndProgressAgree ==
    /\ [](\A t \in Created :
            LET snapshot == OwnerSnapshot(t)
            IN  /\ snapshot.code = 200
                /\ 0 <= snapshot.completed_chunks
                /\ snapshot.completed_chunks <= snapshot.total_chunks
                /\ snapshot.progress =
                       IF snapshot.total_chunks > 0
                       THEN Frac(snapshot.completed_chunks, snapshot.total_chunks)
                       ELSE Zero)
    /\ [][\A t \in Created : ErrorWriteStep(t) =>
            /\ video_upscale_tasks'[t]["status"] = "error"
            /\ \A f \in {"completed_chunks", "total_chunks", "progress"} :
                   video_upscale_tasks'[t][f] = Rec(t)[f]
         ]_vars

\* the snapshot of a task that failed half way through its chunks
C34_Witness ==
    \E t \in Created :
        /\ OwnerSnapshot(t).status = "error"
        /\ OwnerSnapshot(t).completed_chunks = 1
        /\ OwnerSnapshot(t).total_chunks = MaxChunks
        /\ OwnerSnapshot(t).progress = Frac(1, MaxChunks)

-----------------------------------------------------------------------------
\* the status of a payload as a reader of the response sees it: the
\* top-level field if it has a value, otherwise the one under data
StatusAtTop(body) == IF "status" \in DOMAIN body THEN body["status"] ELSE ""
StatusUnderData(body) ==
    IF "data" \in DOMAIN body /\ "status" \in DOMAIN body["data"]
    THEN body["data"]["status"] ELSE ""
StatusRead(body) == IF StatusAtTop(body) # "" THEN StatusAtTop(body) ELSE StatusUnderData(body)
TerminalRounds ==
    { i \in 1..Len(responses) :
        /\ responses[i].kind = "http" /\ responses[i].code = 200
        /\ StatusRead(responses[i].body) \in {"succeeded", "failed"} }
VideoQuery == poller = "video" /\ round' = round + 1

\* C35: in poll_video_task every status query is preceded by one interval
\* sleep, the first included; a response that is not 200 uses up one round,
\* does not end polling and does not replace the last payload observed;
\* polling returns at the first round whose status, read at the top level or
\* under data, is succeeded or failed, and every other status is not terminal.
C35_VideoPollRounds ==
    /\ [](poller = "video" => (sleeps = round /\ Len(responses) = round))
    /\ [][VideoQuery => (sleeps' = sleeps + 1 /\ Len(responses') = round')]_vars
    /\ [][(VideoQuery /\ responses'[round'].kind = "http" /\ responses'[round'].code # 200) =>
            /\ poll_pc' = "polling"
            /\ last_status_data' = last_status_data
            /\ poll_result' = poll_result
         ]_vars
    /\ [](poller = "video" =>
            /\ poll_pc = "returned" <=> TerminalRounds # {}
            /\ TerminalRounds \subseteq {round}
            /\ poll_pc = "returned" =>
                   poll_result = [kind |-> "return", value |-> responses[round].body])
    /\ [][(VideoQuery /\ responses'[round'].kind = "http" /\ responses'[round'].code = 200
            /\ StatusRead(responses'[round'].body) \notin {"succeeded", "failed"}) =>
            (poll_pc' = "polling" /\ last_status_data' = responses'[round'].body)
         ]_vars

\* the task is found failed under data, in the last round allowed, after a
\* response that was not 200
C35_Witness ==
    /\ poller = "video" /\ poll_pc = "returned"
    /\ round = max_rounds /\ round >= 2
    /\ responses[round - 1].kind = "http" /\ responses[round - 1].code # 200
    /\ StatusAtTop(responses[round].body) = ""
    /\ StatusUnderData(responses[round].body) = "failed"

\* a 200 response that holds the submitted prompt id
HoldsPromptId(resp) ==
    resp.kind = "http" /\ resp.code = 200 /\ PromptId \in DOMAIN resp.body
HistoryQuery == poller = "history" /\ round' = round + 1

\* C36: the history poller returns only when a 200 response holds the
\* submitted prompt id, and then returns exactly that entry; a transport
\* exception, a response that is not 200 or one without the prompt id never
\* ends polling: it sleeps one poll interval and queries again until the
\* deadline, and only the deadline makes it raise.
C36_HistoryPollReturnsEntry ==
    /\ [](poller = "history" =>
            /\ poll_pc \in {"polling", "returned", "timeout"}
            /\ poll_pc = "returned" =>
                   /\ HoldsPromptId(last_resp)
                   /\ poll_result = [kind |-> "return", value |-> last_resp.body[PromptId]]
            /\ poll_pc = "timeout" => (clock >= deadline /\ poll_result.kind = "ComfyUiError")
            /\ poll_pc = "polling" => sleeps = round)
    /\ [][HistoryQuery =>
            IF HoldsPromptId(last_resp')
            THEN poll_pc' = "returned" /\ sleeps' = sleeps
            ELSE /\ poll_pc' = "polling"
                 /\ poll_result' = poll_result
                 /\ sleeps' = sleeps + 1
                 /\ clock' >= clock + COMFYUI_POLL_INTERVAL_SEC
         ]_vars
    /\ [][(poller = "history" /\ poll_pc = "polling" /\ poll_pc' = "timeout") =>
            (clock >= deadline /\ round' = round)]_vars
    /\ [](poller = "history" /\ poll_pc = "polling" /\ clock < deadline =>
            \A resp \in HistoryResponses(clock) : ENABLED HistoryRound(resp, 0))

\* the entry is returned after a transport exception, a response that was
\* not 200 or lacked the prompt id, each followed by a sleep
C36_Witness ==
    /\ poller = "history" /\ poll_pc = "returned"
    /\ round >= 3 /\ sleeps = round - 1
    /\ last_err # None
    /\ HoldsPromptId(last_resp)

-----------------------------------------------------------------------------
\* One call of generate_video_from_image (ark_video.py 107-153).

\* the content field of a terminal payload: absent, empty, without a URL,
\* with an empty URL, with a URL
ContentShapes ==
    { <<>>, [content |-> EmptyDict], [content |-> [video_url |-> ""]],
      [content |-> [video_url |-> VideoUrl]] }

\* the payloads poll_video_task can return: a terminal status at the top
\* level or under data, the content next to it
TerminalPayloads ==
    { [status |-> st] @@ c : st \in {"succeeded", "failed"}, c \in ContentShapes }
    \cup { [data |-> ([status |-> st] @@ c)] : st \in {"succeeded", "failed"}, c \in ContentShapes }

\* how submit_video_task ends (ark_video.py 95-104)
SubmitOutcomes == {"task_id", "not 200", "no task id", "exception"}
\* how poll_video_task ends (156-175)
PollOutcomes == {"terminal", "TimeoutError", "exception"}

\* lines 178-180: content of the payload or of its data, and its video_url
extract_video_url(status_data) ==
    LET top == IF "content" \in DOMAIN status_data THEN status_data["content"] ELSE EmptyDict
        data == IF "data" \in DOMAIN status_data THEN status_data["data"] ELSE EmptyDict
        under == IF "content" \in DOMAIN data THEN data["content"] ELSE EmptyDict
        content == IF top # EmptyDict THEN top ELSE under
    IN  IF "video_url" \in DOMAIN content THEN content["video_url"] ELSE None

\* json.dumps(status_data, ensure_ascii=False)[:800]: the text of the payload,
\* cut; the text is written here in the notation of this module
StatusDump(status_data) ==
    LET text == ToString(status_data)
    IN  IF Len(text) <= 800 THEN text ELSE SubSeq(text, 1, 800)

InitGen ==
    /\ g_pc = "submit"
    /\ g_posts = 0
    /\ g_polls = 0
    /\ g_status_data = NoneDict
    /\ g_get \in GetOutcomes
    /\ g_data_url = None
    /\ g_result = [kind |-> "none"]
    /\ InitReg /\ IdlePoll /\ IdlePatch /\ IdleRun /\ IdlePick /\ IdleSort /\ IdleLock /\ IdleWork /\ IdleConcat /\ IdleFetch /\ IdleStart /\ IdleVideo /\ IdleAngles

\* lines 126-140: submit_video_task sends one POST
GenSubmit(outcome) ==
    /\ g_pc = "submit"
    /\ g_posts' = g_posts + 1
    /\ IF outcome = "task_id"
       THEN /\ g_pc' = "poll"
            /\ UNCHANGED g_result
       ELSE /\ g_pc' = "raised"
            /\ g_result' = [kind |-> "raised",
                            error |-> IF outcome = "exception" THEN "RequestException"
                                      ELSE "VideoGenError"]
    /\ UNCHANGED <<g_polls, g_status_data, g_get, g_data_url>>
    /\ UNCHANGED notGen

\* line 142: poll_video_task returns a terminal payload or raises
GenPoll(outcome, payload) ==
    /\ g_pc = "poll"
    /\ g_polls' = g_polls + 1
    /\ IF outcome = "terminal"
       THEN /\ g_pc' = "check"
            /\ g_status_data' = payload
            /\ UNCHANGED g_result
       ELSE /\ g_pc' = "raised"
            /\ g_result' = [kind |-> "raised",
                            error |-> IF outcome = "exception" THEN "RequestException"
                                      ELSE "TimeoutError"]
            /\ UNCHANGED g_status_data
    /\ UNCHANGED <<g_posts, g_get, g_data_url>>
    /\ UNCHANGED notGen

\* lines 143-150: the failed task raises, the payload without a URL is
\* returned as its JSON text
GenCheck ==
    /\ g_pc = "check"
    /\ IF StatusOf(g_status_data) = "failed"
       THEN /\ g_pc' = "raised"
            /\ g_result' = [kind |-> "raised", error |-> "VideoGenError"]
       ELSE IF extract_video_url(g_status_data) \in {None, ""}
       THEN /\ g_pc' = "returned"
            /\ g_result' = [kind |-> "returned", value |-> StatusDump(g_status_data)]
       ELSE /\ g_pc' = "download"
            /\ UNCHANGED g_result
    /\ UNCHANGED <<g_posts, g_polls, g_status_data, g_get, g_data_url>>
    /\ UNCHANGED notGen

\* line 152 and lines 183-190: download_video_as_data_url
GenDownload ==
    /\ g_pc = "download"
    /\ g_data_url' = IF g_get.kind = "response" /\ g_get.status_code = 200
                        /\ g_get.content # ""
                     THEN bytes_to_data_url(g_get.content)
                     ELSE None
    /\ g_pc' = "downloaded"
    /\ UNCHANGED <<g_posts, g_polls, g_status_data, g_get, g_result>>
    /\ UNCHANGED notGen

\* line 153: return data_url or video_url
GenReturn ==
    /\ g_pc = "downloaded"
    /\ g_result' = [kind |-> "returned",
                    value |-> IF g_data_url # None THEN g_data_url
                              ELSE extract_video_url(g_status_data)]
    /\ g_pc' = "returned"
    /\ UNCHANGED <<g_posts, g_polls, g_status_data, g_get, g_data_url>>
    /\ UNCHANGED notGen

NextGen ==
    \/ \E outcome \in SubmitOutcomes : GenSubmit(outcome)
    \/ \E outcome \in PollOutcomes, payload \in TerminalPayloads : GenPoll(outcome, payload)
    \/ GenCheck
    \/ GenDownload
    \/ GenReturn

SpecGen == InitGen /\ [][NextGen]_vars

GenOver == g_pc \in {"returned", "raised"}
\* a video data URL, or the remote URL of the video
VideoReferences == {bytes_to_data_url(b) : b \in Contents \ {""}} \cup {VideoUrl}

\* C37: generate_video_from_image submits exactly one task and polls it once;
\* a failed task makes it raise VideoGenError; whenever it returns, the
\* string returned is a video reference (a video data URL, or the remote
\* video URL when the download failed) taken from a succeeded task.
C37_GenerateReturnsVideoReference ==
    /\ g_posts <= 1 /\ g_polls <= 1
    /\ g_pc \notin {"none", "submit"} => g_posts = 1
    /\ g_pc \in {"check", "download", "downloaded", "returned"} => g_polls = 1
    /\ (GenOver /\ g_status_data # NoneDict /\ StatusOf(g_status_data) = "failed") =>
           g_result = [kind |-> "raised", error |-> "VideoGenError"]
    /\ g_pc = "returned" =>
           /\ StatusOf(g_status_data) = "succeeded"
           /\ g_result.value \in VideoReferences

\* what holds: the same, with one more way to return: a succeeded task
\* whose payload holds no video URL is returned as the JSON text of the
\* payload, cut to 800 characters
GenerateReturnsReferenceOrDump ==
    /\ g_posts <= 1 /\ g_polls <= 1
    /\ g_pc \notin {"none", "submit"} => g_posts = 1
    /\ g_pc \in {"check", "download", "downloaded", "returned"} => g_polls = 1
    /\ (GenOver /\ g_status_data # NoneDict /\ StatusOf(g_status_data) = "failed") =>
           g_result = [kind |-> "raised", error |-> "VideoGenError"]
    /\ g_pc = "returned" =>
           /\ StatusOf(g_status_data) = "succeeded"
           /\ IF extract_video_url(g_status_data) \in {None, ""}
              THEN g_result.value = StatusDump(g_status_data)
              ELSE g_result.value \in VideoReferences

-----------------------------------------------------------------------------
\* The end of run_multi_angleshots_workflow (comfyui.py 897-909): the
\* history of the prompt has arrived, the images are picked and downloaded.

\* lines 316-325
MULTI_ANGLE_VARIANTS ==
    << [name |-> "close_up", branch |-> "65:33", prompt_node |-> "66", save_node |-> "31"],
       [name |-> "wide_shot", branch |-> "65:35", prompt_node |-> "67", save_node |-> "34"],
       [name |-> "45_right", branch |-> "65:37", prompt_node |-> "69", save_node |-> "36"],
       [name |-> "90_right", branch |-> "65:39", prompt_node |-> "68", save_node |-> "38"],
       [name |-> "aerial_view", branch |-> "65:42", prompt_node |-> "70", save_node |-> "41"],
       [name |-> "low_angle", branch |-> "65:44", prompt_node |-> "71", save_node |-> "43"],
       [name |-> "45_left", branch |-> "65:46", prompt_node |-> "73", save_node |-> "45"],
       [name |-> "90_left", branch |-> "65:40", prompt_node |-> "72", save_node |-> "47"] >>

\* line 902
SaveNodeIds == [i \in 1..Len(MULTI_ANGLE_VARIANTS) |-> MULTI_ANGLE_VARIANTS[i].save_node]

\* nodes of the workflow that are no save node of the table and can hold
\* images in a history (previews)
OtherNodeIds == <<"100", "101", "102", "103", "104", "105", "106", "107", "108">>

\* the image a node produced
ImageOf(id) == [filename |-> "ComfyUI_00001_.png", subfolder |-> id, type |-> "output"]

\* a history: the save nodes of `saved` and the first `others` other nodes
\* hold an image; a node that holds none is absent or has an empty list
AngleHistory(saved, others, listed) ==
    LET ids == SaveNodeIds \o OtherNodeIds
        holds(id) == \/ \E k \in saved : SaveNodeIds[k] = id
                     \/ \E k \in 1..others : OtherNodeIds[k] = id
        kept == SelectSeq(ids, LAMBDA id : holds(id) \/ listed)
    IN  [outputs |-> [k \in 1..Len(kept) |->
                        [id |-> kept[k],
                         out |-> [images |-> IF holds(kept[k]) THEN <<ImageOf(kept[k])>>
                                             ELSE <<>>]]]]

\* lines 109-113 and 118-121: images[0] of every node of ids that has images
RECURSIVE FirstImages(_, _)
FirstImages(outputs, ids) ==
    IF ids = <<>> THEN <<>>
    ELSE LET node_out == OutputsGet(outputs, Head(ids))
         IN  (IF HasItems(node_out, "images") THEN <<node_out["images"][1]>> ELSE <<>>)
             \o FirstImages(outputs, Tail(ids))

\* lines 105-126
_pick_output_images(h, preferred_node_ids) ==
    LET outputs == OutputsOf(h)
        picked == FirstImages(outputs, preferred_node_ids)
        any == FirstImages(outputs, OutputKeys(outputs))
    IN  IF picked # <<>> THEN [found |-> TRUE, items |-> picked]
        ELSE IF any # <<>> THEN [found |-> TRUE, items |-> any]
        ELSE [found |-> FALSE, error |-> "No image outputs found in ComfyUI history"]

InitAngles ==
    /\ a_pc = "pick"
    /\ \E saved \in SUBSET (1..Len(SaveNodeIds)), others \in 0..Len(OtherNodeIds),
          listed \in BOOLEAN :
           a_history = AngleHistory(saved, others, listed)
    /\ a_infos = <<>>
    /\ a_result = <<>>
    /\ InitReg /\ IdlePoll /\ IdlePatch /\ IdleRun /\ IdlePick /\ IdleSort /\ IdleLock /\ IdleWork /\ IdleConcat /\ IdleFetch /\ IdleStart /\ IdleVideo /\ IdleGen

\* lines 902-903
AnglesPick ==
    /\ a_pc = "pick"
    /\ LET r == _pick_output_images(a_history, SaveNodeIds)
       IN  IF r.found
           THEN a_pc' = "check" /\ a_infos' = r.items
           ELSE a_pc' = "raised" /\ UNCHANGED a_infos
    /\ UNCHANGED <<a_history, a_result>>
    /\ UNCHANGED notAngles

\* lines 904-907
AnglesCheck ==
    /\ a_pc = "check"
    /\ a_pc' = IF Len(a_infos) < Len(SaveNodeIds) THEN "raised" ELSE "download"
    /\ UNCHANGED <<a_history, a_infos, a_result>>
    /\ UNCHANGED notAngles

\* line 909: the first len(save_node_ids) images are downloaded, in order;
\* a download can raise
AnglesDownload(ok) ==
    /\ a_pc = "download"
    /\ IF ok
       THEN /\ a_pc' = "returned"
            /\ a_result' = SubSeq(a_infos, 1, Len(SaveNodeIds))
       ELSE /\ a_pc' = "raised"
            /\ UNCHANGED a_result
    /\ UNCHANGED <<a_history, a_infos>>
    /\ UNCHANGED notAngles

NextAngles ==
    \/ AnglesPick
    \/ AnglesCheck
    \/ \E ok \in BOOLEAN : AnglesDownload(ok)

SpecAngles == InitAngles /\ [][NextAngles]_vars

\* the node an image came from
NodeOf(image) == image.subfolder
SavedNodes == {id \in {SaveNodeIds[k] : k \in 1..Len(SaveNodeIds)} :
                 HasItems(OutputsGet(OutputsOf(a_history), id), "images")}

\* C38: the multi-angle workflow returns exactly 8 images, image i being
\* the output of the save node of the i-th entry of the variant table, or
\* it raises; it never returns fewer than 8 images and never an image
\* attributed to the wrong angle.
C38_EightImagesInTableOrder ==
    /\ a_pc \in {"pick", "check", "download", "returned", "raised"}
    /\ a_pc = "returned" =>
           /\ Len(a_result) = 8
           /\ Len(MULTI_ANGLE_VARIANTS) = 8
           /\ \A k \in 1..8 : NodeOf(a_result[k]) = MULTI_ANGLE_VARIANTS[k].save_node

\* what holds: exactly 8 images are returned or the run raises, and the
\* images are those of the table, in its order, whenever some save node of
\* the table produced an image
EightImagesInTableOrderIfAnySaved ==
    /\ a_pc \in {"pick", "check", "download", "returned", "raised"}
    /\ a_pc = "returned" =>
           /\ Len(a_result) = 8
           /\ SavedNodes # {} =>
                  \A k \in 1..8 : NodeOf(a_result[k]) = MULTI_ANGLE_VARIANTS[k].save_node

=============================================================================
